---- MODULE Spec2Model ----
(***************************************************************************)
(* A model of buildbot's BuildMaster (master/buildbot/master.py): the      *)
(* database change poller, the changes bus and the configuration reload.   *)
(*                                                                         *)
(* Several masters share one database.  Every database call of the source  *)
(* is a suspension point: the call is issued by one action and its result  *)
(* is consumed by a later action, at which moment the database operation   *)
(* takes effect.                                                           *)
(***************************************************************************)
EXTENDS Integers, Sequences, FiniteSets, TLC

\* The masters that share the database.
Masters == {"A", "B"}

\* Python's None for the nullable integers of the source.
None == -1

\* A configured db_poll_interval (seconds).
PollInterval == 30

\* Bounds of the model.
MaxChange == 3
MaxRestarts == 1
MaxInFlight == 2
MaxLoads == 2
MaxCalls == 2

PollSlots == 1..MaxInFlight

VARIABLES
    \* ---- the shared database
    changes,                \* changeids present in the changes table
    next_changeid,          \* the next changeid the table assigns
    db_objects,             \* objects table: sequence of names, id = index
    db_state,               \* state table: objectid -> last_processed_change
    \* ---- each master
    db_poll_interval,       \* self.db_poll_interval
    last_processed_change,  \* self._last_processed_change
    master_objectid,        \* self._master_objectid
    polls,                  \* invocations of pollDatabaseChanges in flight
    poll_timer,             \* the TimerService t1: absent, running, stopped
    timer_wait,             \* the poll whose Deferred the timer waits for, or 0
    add_pending,            \* addChange calls whose database write is in flight
    add_committed,          \* changeids written whose Deferred has not fired
    change_subs,            \* self._change_subs: observers, subscription order
    \* ---- history
    delivered,              \* changeids delivered on the master's changes bus
    invoked,                \* the observers the last delivery invoked, in order
    inc_start,              \* Len(delivered) when the current run started
    init_mark,              \* the mark the current run first loaded or set
    restarts,               \* restarts so far
    \* ---- the live graph of the master that is reconfigured (Self)
    db,                     \* self.db: "None" or "DBConnector"
    db_url,                 \* self.db_url
    schema_current,         \* what db.model.is_current() reports
    change_horizon,         \* self.change_svc.changeHorizon
    db_change_horizon,      \* self.db.changeHorizon
    settings,               \* projectName, properties, slavePortnum, ...
    slaves,                 \* the slaves of the botmaster
    manhole,                \* self.manhole
    builders,               \* self.botmaster.builders: name -> config dict
    builder_list,           \* the list last handed to botmaster.setBuilders
    statusTargets,          \* self.statusTargets
    schedulers,             \* the schedulers of the scheduler manager
    sources,                \* the change sources of self.change_svc
    debugClientRegistration,\* self.debugClientRegistration
    readConfig,             \* self.readConfig
    db_dependents,          \* botmaster.db and status.setDB are set
    new_buildset_subs,      \* self._new_buildset_subs
    wake_timer,             \* the TimerService t2: absent, running
    triggers,               \* calls of botmaster.loop.trigger by loadConfig
    \* ---- the loads
    loads,                  \* every loadConfig call so far
    reactor,                \* the load whose callbacks run now, or 0
    \* ---- startService
    start_pc,               \* startService: created, loading, started
    start_load,             \* the load startService made, or 0
    master_started,         \* builders whose status got "master started"
    \* ---- addBuildset and the Control facade
    bs_calls,               \* every addBuildset call so far
    next_bsid,              \* the next bsid the buildsets table assigns
    bs_bus,                 \* deliveries on the new-buildset bus, in order
    control_log,            \* every Control.addChange call so far
    \* ---- the botmaster's builders, the status and the debug port
    builder_objs,           \* name -> the Builder object of the botmaster
    status_events,          \* calls of loadConfig_Builders on the status
    debug_live              \* debug registrations live on the pbmanager

dbVars == <<changes, next_changeid, db_objects, db_state>>
masterVars == <<db_poll_interval, last_processed_change, master_objectid,
                polls, poll_timer, timer_wait, add_pending, add_committed,
                change_subs>>
histVars == <<delivered, invoked, inc_start, init_mark, restarts>>
liveVars == <<db, db_url, schema_current, change_horizon, db_change_horizon,
              settings, slaves, manhole, builders, builder_list,
              statusTargets, schedulers, sources, debugClientRegistration,
              readConfig, db_dependents, new_buildset_subs, wake_timer,
              triggers>>
loadVars == <<loads, reactor>>
startVars == <<start_pc, start_load, master_started>>
apiVars == <<bs_calls, next_bsid, bs_bus, control_log>>
botVars == <<builder_objs, status_events, debug_live>>
vars == <<dbVars, masterVars, histVars, liveVars, loadVars, startVars,
          apiVars, botVars>>

----------------------------------------------------------------------------
\* Helpers

Max(S) == CHOOSE x \in S : \A y \in S : y <= x

Range(s) == {s[k] : k \in 1..Len(s)}

Count(s, x) == Cardinality({k \in 1..Len(s) : s[k] = x})

\* No invocation in a slot.  start_len and first_mark record where the
\* invocation started: the number of deliveries made before it, and the
\* mark it started with, loaded or initialised.
NoPoll == [pc |-> "none", need_setState |-> FALSE, after |-> "none",
           changeid |-> None, value |-> None, start_len |-> 0,
           first_mark |-> None]

InFlight(m) == {i \in PollSlots : polls[m][i].pc # "none"}

\* The name under which a master registers itself in the objects table.
MasterObjectName(m) == "buildbot.master.BuildMaster"

\* db.state.getObjectId: the id of a name, whose row is inserted if absent.
ObjectsAfterGet(name) ==
    IF name \in Range(db_objects) THEN db_objects ELSE Append(db_objects, name)

ObjectIdOf(objects, name) == CHOOSE k \in 1..Len(objects) : objects[k] = name

\* db.state.getState(objectid, name, default=None)
StateOf(objectid) ==
    IF objectid \in DOMAIN db_state THEN db_state[objectid] ELSE None

\* The persisted last_processed_change of master m.
PersistedMark(m) ==
    IF MasterObjectName(m) \in Range(db_objects)
    THEN StateOf(ObjectIdOf(db_objects, MasterObjectName(m)))
    ELSE None

\* db.changes.getLatestChangeid()
LatestChangeid == IF changes = {} THEN None ELSE Max(changes)

\* SubscriptionPoint.deliver: every subscribed observer once, in subscription
\* order; an observer's failure is logged and delivery goes on.
Deliver(m, c) ==
    /\ delivered' = [delivered EXCEPT ![m] = Append(@, c)]
    /\ invoked' = [invoked EXCEPT ![m] = change_subs[m]]

\* pollDatabase with its result dropped: the timer is handed nothing.
PollReturnsNothing == FALSE

\* pollDatabase hands the Deferred of the poll to the TimerService.
PollReturnsDeferred == TRUE

\* _getState and _setState start with _getObjectId, which is a database call
\* unless the id is memoised.
StateCallPc(m, target) ==
    IF master_objectid[m] = None THEN "getObjectId" ELSE target

\* The poll in slot i ends: its Deferred fires.  A failure reaches the
\* LoopingCall of the timer that waits for it, which then stops for good.
EndPoll(m, i, failed) ==
    /\ polls' = [polls EXCEPT ![m][i] = NoPoll]
    /\ timer_wait' = [timer_wait EXCEPT ![m] = IF @ = i THEN 0 ELSE @]
    /\ poll_timer' = [poll_timer EXCEPT ![m] =
           IF failed /\ timer_wait[m] = i THEN "stopped" ELSE @]

----------------------------------------------------------------------------
\* addChange

\* addChange: db.changes.addChange is called.
AddChangeCall(m) ==
    /\ next_changeid + add_pending["A"] + add_pending["B"] <= MaxChange
    /\ add_pending' = [add_pending EXCEPT ![m] = @ + 1]
    /\ UNCHANGED <<liveVars, loadVars, startVars, botVars, apiVars, dbVars, db_poll_interval, last_processed_change,
                   master_objectid, polls, poll_timer, timer_wait,
                   add_committed, change_subs, histVars>>

\* The write commits in the database's worker pool: the row gets the next
\* changeid.  The Deferred of the call has not fired yet.
AddChangeCommit(m) ==
    /\ add_pending[m] > 0
    /\ add_pending' = [add_pending EXCEPT ![m] = @ - 1]
    /\ changes' = changes \cup {next_changeid}
    /\ next_changeid' = next_changeid + 1
    /\ add_committed' = [add_committed EXCEPT ![m] = @ \cup {next_changeid}]
    /\ UNCHANGED <<liveVars, loadVars, startVars, botVars, apiVars, db_objects, db_state, db_poll_interval,
                   last_processed_change, master_objectid, polls, poll_timer,
                   timer_wait, change_subs, histVars>>

\* addChange.notify with the delivery made whatever db_poll_interval is.
AddChangeNotifyAlways(m, c) ==
    /\ c \in add_committed[m]
    /\ add_committed' = [add_committed EXCEPT ![m] = @ \ {c}]
    /\ Deliver(m, c)
    /\ UNCHANGED <<liveVars, loadVars, startVars, botVars, apiVars, dbVars, db_poll_interval, last_processed_change,
                   master_objectid, polls, poll_timer, timer_wait,
                   add_pending, change_subs, inc_start, init_mark, restarts>>

\* The Deferred of a committed write fires: addChange.notify delivers the
\* change unless the master polls.
AddChangeNotify(m, c) ==
    /\ c \in add_committed[m]
    /\ add_committed' = [add_committed EXCEPT ![m] = @ \ {c}]
    /\ IF db_poll_interval[m] \in {None, 0}
       THEN Deliver(m, c)
       ELSE UNCHANGED <<liveVars, loadVars, startVars, botVars, apiVars, delivered, invoked>>
    /\ UNCHANGED <<liveVars, loadVars, startVars, botVars, apiVars, dbVars, db_poll_interval, last_processed_change,
                   master_objectid, polls, poll_timer, timer_wait,
                   add_pending, change_subs, inc_start, init_mark, restarts>>

\* The write fails: notify is not called.  The transaction that was rolled
\* back may have used up a changeid.
AddChangeFail(m) ==
    /\ add_pending[m] > 0
    /\ add_pending' = [add_pending EXCEPT ![m] = @ - 1]
    /\ \E used \in {0, 1} : next_changeid' = next_changeid + used
    /\ UNCHANGED <<liveVars, loadVars, startVars, botVars, apiVars, changes, db_objects, db_state, db_poll_interval,
                   last_processed_change, master_objectid, polls, poll_timer,
                   timer_wait, add_committed, change_subs, histVars>>

\* subscribeToChanges: the observer is added after those subscribed already.
SubscribeToChanges(m, o) ==
    /\ o \notin Range(change_subs[m])
    /\ change_subs' = [change_subs EXCEPT ![m] = Append(@, o)]
    /\ UNCHANGED <<liveVars, loadVars, startVars, botVars, apiVars, dbVars, db_poll_interval, last_processed_change,
                   master_objectid, polls, poll_timer, timer_wait,
                   add_pending, add_committed, histVars>>

\* The handle's cancel (unsubscribe): the observer is removed.
Unsubscribe(m, o) ==
    /\ o \in Range(change_subs[m])
    /\ change_subs' = [change_subs EXCEPT ![m] =
           SelectSeq(@, LAMBDA x : x # o)]
    /\ UNCHANGED <<liveVars, loadVars, startVars, botVars, apiVars, dbVars, db_poll_interval, last_processed_change,
                   master_objectid, polls, poll_timer, timer_wait,
                   add_pending, add_committed, histVars>>

----------------------------------------------------------------------------
\* Writers of the changes table other than this model's addChange calls

\* A change is written to the database: the row gets the next changeid.
DbWriteChange ==
    /\ next_changeid <= MaxChange
    /\ changes' = changes \cup {next_changeid}
    /\ next_changeid' = next_changeid + 1
    /\ UNCHANGED <<liveVars, loadVars, startVars, botVars, apiVars, db_objects, db_state, masterVars, histVars>>

\* A write is rolled back after the table has assigned it a changeid.
DbSkipChangeid ==
    /\ next_changeid <= MaxChange
    /\ next_changeid' = next_changeid + 1
    /\ UNCHANGED <<liveVars, loadVars, startVars, botVars, apiVars, changes, db_objects, db_state, masterVars, histVars>>

----------------------------------------------------------------------------
\* pollDatabase and pollDatabaseChanges

\* The timer fires: pollDatabase starts pollDatabaseChanges, which runs up to
\* its first database call.  The timer does not fire again before the
\* Deferred it was handed has fired.
TimerFire(m) ==
    /\ poll_timer[m] = "running"
    /\ timer_wait[m] = 0
    /\ PollSlots \ InFlight(m) # {}
    /\ LET i == CHOOSE k \in PollSlots \ InFlight(m) :
                    \A j \in PollSlots \ InFlight(m) : k <= j
       IN /\ polls' = [polls EXCEPT ![m][i] =
                 IF last_processed_change[m] = None
                 THEN [NoPoll EXCEPT !.pc = StateCallPc(m, "getState"),
                                     !.after = "getState",
                                     !.start_len = Len(delivered[m])]
                 ELSE [NoPoll EXCEPT !.pc = "fetch",
                           !.changeid = last_processed_change[m] + 1,
                           !.start_len = Len(delivered[m]),
                           !.first_mark = last_processed_change[m]]]
          /\ timer_wait' = [timer_wait EXCEPT ![m] =
                 IF PollReturnsDeferred THEN i ELSE 0]
    /\ UNCHANGED <<liveVars, loadVars, startVars, botVars, apiVars, dbVars, db_poll_interval, last_processed_change,
                   master_objectid, poll_timer, add_pending, add_committed, change_subs,
                   histVars>>

\* _getObjectId.keep: the id is memoised, then the get or set goes on.
GetObjectIdDone(m, i) ==
    /\ polls[m][i].pc = "getObjectId"
    /\ db_objects' = ObjectsAfterGet(MasterObjectName(m))
    /\ master_objectid' = [master_objectid EXCEPT ![m] =
           ObjectIdOf(db_objects', MasterObjectName(m))]
    /\ polls' = [polls EXCEPT ![m][i].pc = polls[m][i].after]
    /\ UNCHANGED <<liveVars, loadVars, startVars, botVars, apiVars, changes, next_changeid, db_state, db_poll_interval,
                   last_processed_change, poll_timer, timer_wait, add_pending, add_committed,
                   change_subs, histVars>>

\* The result of _getState('last_processed_change') becomes the mark; when it
\* is None the latest changeid is asked for.
GetStateDone(m, i) ==
    /\ polls[m][i].pc = "getState"
    /\ LET v == StateOf(master_objectid[m])
       IN /\ last_processed_change' = [last_processed_change EXCEPT ![m] = v]
          /\ init_mark' = [init_mark EXCEPT ![m] = v]
          /\ polls' = [polls EXCEPT ![m][i] =
                 IF v = None
                 THEN [@ EXCEPT !.pc = "getLatest"]
                 ELSE [@ EXCEPT !.pc = "fetch", !.changeid = v + 1,
                                !.first_mark = v]]
    /\ UNCHANGED <<liveVars, loadVars, startVars, botVars, apiVars, dbVars, db_poll_interval, master_objectid, poll_timer,
                   timer_wait, add_pending, add_committed, change_subs, delivered, invoked,
                   inc_start, restarts>>

\* The mark taken from getLatestChangeid with need_setState left False.
GetLatestDoneNotDirty(m, i) ==
    /\ polls[m][i].pc = "getLatest"
    /\ LET v == LatestChangeid
       IN /\ last_processed_change' = [last_processed_change EXCEPT ![m] = v]
          /\ init_mark' = [init_mark EXCEPT ![m] = v]
          /\ IF v = None
             THEN EndPoll(m, i, FALSE)
             ELSE /\ polls' = [polls EXCEPT ![m][i] =
                         [@ EXCEPT !.pc = "fetch", !.changeid = v + 1,
                                   !.first_mark = v]]
                  /\ UNCHANGED <<liveVars, loadVars, startVars, botVars, apiVars, poll_timer, timer_wait>>
    /\ UNCHANGED <<liveVars, loadVars, startVars, botVars, apiVars, dbVars, db_poll_interval, master_objectid, add_pending, add_committed,
                   change_subs, delivered, invoked, inc_start, restarts>>

\* The result of getLatestChangeid becomes the mark; with no change in the
\* database the poll returns.
GetLatestDone(m, i) ==
    /\ polls[m][i].pc = "getLatest"
    /\ LET v == LatestChangeid
       IN /\ last_processed_change' = [last_processed_change EXCEPT ![m] = v]
          /\ init_mark' = [init_mark EXCEPT ![m] = v]
          /\ IF v = None
             THEN EndPoll(m, i, FALSE)
             ELSE /\ polls' = [polls EXCEPT ![m][i] =
                         [@ EXCEPT !.pc = "fetch", !.need_setState = TRUE,
                                   !.changeid = v + 1, !.first_mark = v]]
                  /\ UNCHANGED <<liveVars, loadVars, startVars, botVars, apiVars, poll_timer, timer_wait>>
    /\ UNCHANGED <<liveVars, loadVars, startVars, botVars, apiVars, dbVars, db_poll_interval, master_objectid, add_pending, add_committed,
                   change_subs, delivered, invoked, inc_start, restarts>>

\* The loop's step with the assignment of the mark left out.
FetchDoneMarkNotAdvanced(m, i) ==
    /\ polls[m][i].pc = "fetch"
    /\ polls[m][i].changeid \in changes
    /\ Deliver(m, polls[m][i].changeid)
    /\ polls' = [polls EXCEPT ![m][i] =
           [@ EXCEPT !.need_setState = TRUE,
                     !.changeid = last_processed_change[m] + 1]]
    /\ UNCHANGED <<liveVars, loadVars, startVars, botVars, apiVars, dbVars, db_poll_interval, last_processed_change,
                   master_objectid, poll_timer, timer_wait, add_pending,
                   add_committed, change_subs, inc_start, init_mark, restarts>>

\* The loop's step with the mark advanced and no delivery made.
FetchDoneNoDeliver(m, i) ==
    /\ polls[m][i].pc = "fetch"
    /\ LET changeid == polls[m][i].changeid
       IN IF changeid \in changes
          THEN /\ last_processed_change' =
                       [last_processed_change EXCEPT ![m] = changeid]
               /\ polls' = [polls EXCEPT ![m][i] =
                       [@ EXCEPT !.need_setState = TRUE,
                                 !.changeid = changeid + 1]]
               /\ UNCHANGED <<liveVars, loadVars, startVars, botVars, apiVars, poll_timer, timer_wait, delivered, invoked>>
          ELSE /\ EndPoll(m, i, FALSE)
               /\ UNCHANGED <<liveVars, loadVars, startVars, botVars, apiVars, last_processed_change, delivered, invoked>>
    /\ UNCHANGED <<liveVars, loadVars, startVars, botVars, apiVars, dbVars, db_poll_interval, master_objectid, add_pending, add_committed,
                   change_subs, inc_start, init_mark, restarts>>

\* The result of getChangeInstance(changeid): a change is delivered and the
\* mark advanced to it, and the next one is asked for; no change ends the
\* loop, and the mark is written back when need_setState.
FetchDone(m, i) ==
    /\ polls[m][i].pc = "fetch"
    /\ LET changeid == polls[m][i].changeid
       IN IF changeid \in changes
          THEN /\ Deliver(m, changeid)
               /\ last_processed_change' =
                       [last_processed_change EXCEPT ![m] = changeid]
               /\ polls' = [polls EXCEPT ![m][i] =
                       [@ EXCEPT !.need_setState = TRUE,
                                 !.changeid = changeid + 1]]
               /\ UNCHANGED <<liveVars, loadVars, startVars, botVars, apiVars, poll_timer, timer_wait>>
          ELSE /\ IF polls[m][i].need_setState
                  THEN /\ polls' = [polls EXCEPT ![m][i] =
                              [@ EXCEPT !.pc = StateCallPc(m, "setState"),
                                        !.after = "setState",
                                        !.value = last_processed_change[m]]]
                       /\ UNCHANGED <<liveVars, loadVars, startVars, botVars, apiVars, poll_timer, timer_wait>>
                  ELSE EndPoll(m, i, FALSE)
               /\ UNCHANGED <<liveVars, loadVars, startVars, botVars, apiVars, last_processed_change, delivered, invoked>>
    /\ UNCHANGED <<liveVars, loadVars, startVars, botVars, apiVars, dbVars, db_poll_interval, master_objectid, add_pending, add_committed,
                   change_subs, inc_start, init_mark, restarts>>

\* The end of the poll with the write of the mark left out.
SetStateDoneSkipped(m, i) ==
    /\ polls[m][i].pc = "setState"
    /\ EndPoll(m, i, FALSE)
    /\ UNCHANGED <<liveVars, loadVars, startVars, botVars, apiVars, dbVars, db_poll_interval,
                   last_processed_change, master_objectid, add_pending, add_committed,
                   change_subs, histVars>>

\* _setState: the mark is durable, and the poll ends.
SetStateDone(m, i) ==
    /\ polls[m][i].pc = "setState"
    /\ db_state' = [k \in DOMAIN db_state \cup {master_objectid[m]} |->
           IF k = master_objectid[m] THEN polls[m][i].value ELSE db_state[k]]
    /\ EndPoll(m, i, FALSE)
    /\ UNCHANGED <<liveVars, loadVars, startVars, botVars, apiVars, changes, next_changeid, db_objects, db_poll_interval,
                   last_processed_change, master_objectid, add_pending, add_committed,
                   change_subs, histVars>>

\* A database call of the poll fails: the generator raises, and the poll's
\* Deferred fires with the failure.
PollFail(m, i) ==
    /\ polls[m][i].pc # "none"
    /\ EndPoll(m, i, TRUE)
    /\ UNCHANGED <<liveVars, loadVars, startVars, botVars, apiVars, dbVars, db_poll_interval, last_processed_change,
                   master_objectid, add_pending, add_committed, change_subs, histVars>>

\* The master's process ends and a new one starts on the same basedir and
\* configuration: the memoised values are those of the class again.
Restart(m) ==
    /\ restarts < MaxRestarts
    /\ poll_timer[m] # "absent"
    /\ restarts' = restarts + 1
    /\ last_processed_change' = [last_processed_change EXCEPT ![m] = None]
    /\ master_objectid' = [master_objectid EXCEPT ![m] = None]
    /\ polls' = [polls EXCEPT ![m] = [i \in PollSlots |-> NoPoll]]
    /\ poll_timer' = [poll_timer EXCEPT ![m] = "running"]
    /\ timer_wait' = [timer_wait EXCEPT ![m] = 0]
    /\ add_pending' = [add_pending EXCEPT ![m] = 0]
    /\ add_committed' = [add_committed EXCEPT ![m] = {}]
    /\ inc_start' = [inc_start EXCEPT ![m] = Len(delivered[m])]
    /\ init_mark' = [init_mark EXCEPT ![m] = None]
    /\ UNCHANGED <<liveVars, loadVars, startVars, botVars, apiVars, dbVars, db_poll_interval, change_subs, delivered, invoked>>

----------------------------------------------------------------------------
\* The configuration: the BuildmasterConfig dictionaries the master is given

\* The master whose configuration is loaded.
Self == "A"

\* The _Unset marker of db_poll_interval.
Unset == -2

DefaultDbUrl == "sqlite:///state.sqlite"

\* Builder dictionaries: an absent 'builddir' or 'slavename' is "", locks
\* are those of the builder, steplocks those of the steps of its factory.
B1 == [name |-> "b1", builddir |-> "", slavename |-> "",
       slavenames |-> <<"s1">>, locks |-> <<>>, steplocks |-> <<>>]
B2 == [name |-> "b2", builddir |-> "", slavename |-> "",
       slavenames |-> <<"s1">>, locks |-> <<>>, steplocks |-> <<>>]

B3 == [name |-> "b3", builddir |-> "", slavename |-> "",
       slavenames |-> <<"s1">>, locks |-> <<>>, steplocks |-> <<>>]

\* Lock identities: two of them share the name "L".
LockL1 == [name |-> "L", id |-> "alpha"]
LockL2 == [name |-> "L", id |-> "beta"]
LockM == [name |-> "M", id |-> "gamma"]

\* A configuration that passes every validation.
BaseConfig ==
    [missing |-> {}, deprecated |-> {}, badtype |-> "none",
     slaves |-> <<"s1">>, builders |-> <<B1>>,
     schedulers |-> <<[name |-> "all", builderNames |-> <<"b1">>]>>,
     multiMaster |-> FALSE, slavePortnum |-> "tcp:9989",
     db_url |-> DefaultDbUrl, db_poll_interval |-> None,
     changeHorizon |-> None, manhole |-> "None", status |-> <<>>,
     change_source |-> <<>>, debugPassword |-> "None",
     projectName |-> "p1", properties |-> "props1"]

\* A second valid configuration: one more builder, a status target, a
\* change source, a manhole, a debug password, other project settings.
FullConfig ==
    [BaseConfig EXCEPT !.builders = <<B1, B2>>, !.status = <<"st1">>,
                       !.change_source = <<"cs1">>, !.manhole = "mh1",
                       !.debugPassword = "pw1", !.projectName = "p2",
                       !.properties = "props2"]

ConfigIds == {"base", "full", "horizon_reserved", "dup_builder", "no_slaves",
              "other_url", "poll"}

\* The configurations that are also loaded with checkOnly.
CheckedIds == {"full", "horizon_reserved"}

Config(id) ==
    CASE id = "base" -> BaseConfig
      [] id = "full" -> FullConfig
      [] id = "horizon_reserved" ->
             [BaseConfig EXCEPT !.changeHorizon = 7,
                                !.slaves = <<"s1", "debug">>]
      [] id = "dup_builder" -> [BaseConfig EXCEPT !.builders = <<B1, B1>>]
      [] id = "no_slaves" ->
             [BaseConfig EXCEPT !.changeHorizon = 9, !.missing = {"slaves"}]
      [] id = "other_url" -> [BaseConfig EXCEPT !.db_url = "mysql://other"]
      [] id = "poll" -> [BaseConfig EXCEPT !.db_poll_interval = PollInterval]
      [] id = "dup_name" ->
             [BaseConfig EXCEPT
                 !.builders = <<B1, [B1 EXCEPT !.builddir = "d2"]>>]
      [] id = "same_dir" ->
             [BaseConfig EXCEPT
                 !.builders = <<[B1 EXCEPT !.builddir = "d"],
                                [B2 EXCEPT !.builddir = "d"]>>]
      [] id = "translated_dir" ->
             [BaseConfig EXCEPT
                 !.builders = <<B1, [B2 EXCEPT !.name = "b/2"],
                                [B2 EXCEPT !.name = "b_2"]>>]
      [] id = "lock_clash" ->
             [BaseConfig EXCEPT
                 !.builders = <<[B1 EXCEPT !.locks = <<LockL1, LockM>>],
                                [B2 EXCEPT !.steplocks = <<LockL2>>]>>]
      [] id = "lock_shared" ->
             [BaseConfig EXCEPT
                 !.builders = <<[B1 EXCEPT !.locks = <<LockL1, LockM>>],
                                [B2 EXCEPT !.steplocks = <<LockL1>>]>>]
      [] id = "undeclared_slave" ->
             [BaseConfig EXCEPT
                 !.builders = <<B1, [B2 EXCEPT !.slavenames = <<"s1", "s9">>]>>]
      [] id = "undeclared_slavename" ->
             [BaseConfig EXCEPT
                 !.builders = <<[B1 EXCEPT !.slavename = "s9"]>>]
      [] id = "underscore" ->
             [BaseConfig EXCEPT !.builders = <<B1, [B2 EXCEPT !.name = "_b"]>>]
      [] id = "reserved_debug" -> [BaseConfig EXCEPT !.slaves = <<"s1", "debug">>]
      [] id = "reserved_change" -> [BaseConfig EXCEPT !.slaves = <<"change", "s1">>]
      [] id = "reserved_status" -> [BaseConfig EXCEPT !.slaves = <<"s1", "status">>]
      [] id = "dup_slave" -> [BaseConfig EXCEPT !.slaves = <<"s1", "s2", "s1">>]
      [] id = "two_slaves" -> [BaseConfig EXCEPT !.slaves = <<"s1", "s2">>]
      [] id = "dup_scheduler" ->
             [BaseConfig EXCEPT
                 !.schedulers = <<[name |-> "all", builderNames |-> <<"b1">>],
                                  [name |-> "all", builderNames |-> <<"b1">>]>>]
      [] id = "unknown_builder" ->
             [BaseConfig EXCEPT
                 !.schedulers = <<[name |-> "all",
                                   builderNames |-> <<"b1", "b7">>]>>]
      [] id = "unknown_builder_multi" ->
             [BaseConfig EXCEPT
                 !.multiMaster = TRUE,
                 !.schedulers = <<[name |-> "all",
                                   builderNames |-> <<"b1", "b7">>]>>]
      [] id = "bad_type" -> [BaseConfig EXCEPT !.badtype = "logMaxSize"]
      [] id = "no_builders" -> [BaseConfig EXCEPT !.missing = {"builders"}]
      [] id = "bots" -> [BaseConfig EXCEPT !.deprecated = {"bots"}]
      [] id = "interlocks" -> [BaseConfig EXCEPT !.deprecated = {"interlocks"}]
      [] id = "more" ->
             [FullConfig EXCEPT
                 !.builders = <<[B1 EXCEPT !.builddir = "d1"], B2, B3>>,
                 !.status = <<"st2">>, !.change_source = <<"cs2">>,
                 !.debugPassword = "pw2"]
      [] id = "horizon" -> [BaseConfig EXCEPT !.changeHorizon = 7]
      [] id = "swapped" -> [FullConfig EXCEPT !.builders = <<B2, B1>>]
      [] id = "less" ->
             [FullConfig EXCEPT
                 !.builders = <<B1>>, !.status = <<>>,
                 !.change_source = <<>>, !.debugPassword = "None"]

\* buildbot.util.safeTranslate on the builder names of the model.
SafeTranslate(name) == IF name = "b/2" THEN "b_2" ELSE name

\* The config dictionary of a builder with its defaults set.
BuilderDict(b) ==
    [b EXCEPT !.builddir = IF @ = "" THEN SafeTranslate(b.name) ELSE @]

BuilderDicts(c) == [k \in 1..Len(c.builders) |-> BuilderDict(c.builders[k])]

Distinct(s) == \A j, k \in 1..Len(s) : j # k => s[j] # s[k]

NamesOf(s) == [k \in 1..Len(s) |-> s[k].name]

\* The checks of do_load that come before changeHorizon is applied.
PreHorizonError(c) ==
    IF c.badtype = "syntax" THEN "SyntaxError"
    ELSE IF c.missing \cap {"schedulers", "builders", "slavePortnum"} # {}
    THEN "KeyError"
    ELSE IF c.badtype \in {"logCompressionLimit", "logCompressionMethod",
                           "logMaxSize", "logMaxTailSize", "mergeRequests",
                           "prioritizeBuilders", "changeHorizon"}
    THEN "ValueError"
    ELSE IF c.deprecated \cap {"sources", "bots"} # {} THEN "KeyError"
    ELSE IF "slaves" \in c.missing THEN "KeyError"
    ELSE "ok"

\* The builders loop of do_load without its check of the build directories.
BuildersErrorDirsUnchecked(c) ==
    LET bs == BuilderDicts(c)
    IN IF \E k \in 1..Len(bs) :
              \/ bs[k].slavename # "" /\ bs[k].slavename \notin Range(c.slaves)
              \/ \E n \in Range(bs[k].slavenames) : n \notin Range(c.slaves)
       THEN "ValueError"
       ELSE IF ~Distinct(NamesOf(bs)) THEN "ValueError"
       ELSE IF \E k \in 1..Len(bs) : bs[k].name \in {"_b"} THEN "ValueError"
       ELSE "ok"

\* The builders loop of do_load.
BuildersError(c) ==
    LET bs == BuilderDicts(c)
    IN IF \E k \in 1..Len(bs) :
              \/ bs[k].slavename # "" /\ bs[k].slavename \notin Range(c.slaves)
              \/ \E n \in Range(bs[k].slavenames) : n \notin Range(c.slaves)
       THEN "ValueError"
       ELSE IF ~Distinct(NamesOf(bs)) THEN "ValueError"
       ELSE IF \E k \in 1..Len(bs) : bs[k].name \in {"_b"} THEN "ValueError"
       ELSE IF ~Distinct([k \in 1..Len(bs) |-> bs[k].builddir])
       THEN "ValueError"
       ELSE "ok"

\* The schedulers loop of do_load.
SchedulersError(c) ==
    IF /\ ~c.multiMaster
       /\ \E k \in 1..Len(c.schedulers) :
              \E b \in Range(c.schedulers[k].builderNames) :
                  b \notin Range(NamesOf(c.builders))
    THEN "AssertionError"
    ELSE IF ~Distinct(NamesOf(c.schedulers)) THEN "ValueError"
    ELSE "ok"

\* The locks of the builders: one identity for each name.
LocksError(c) ==
    LET ls == UNION {Range(c.builders[k].locks)
                         \cup Range(c.builders[k].steplocks) :
                     k \in 1..Len(c.builders)}
    IN IF \E l1, l2 \in ls : l1.name = l2.name /\ l1.id # l2.id
       THEN "ValueError" ELSE "ok"

\* do_load without the assertion on db_url.
PostHorizonErrorAnyUrl(c) ==
    IF \E n \in Range(c.slaves) : n \in {"debug", "change", "status"}
    THEN "KeyError"
    ELSE IF "interlocks" \in c.deprecated THEN "KeyError"
    ELSE IF c.badtype = "db_poll_interval" THEN "AssertionError"
    ELSE IF /\ db_poll_interval[Self] # Unset
            /\ c.db_poll_interval # db_poll_interval[Self]
    THEN "AssertionError"
    ELSE IF c.badtype \in {"change_source", "schedulers", "status"}
    THEN "AssertionError"
    ELSE IF c.badtype = "builders" THEN "ValueError"
    ELSE IF BuildersError(c) # "ok" THEN BuildersError(c)
    ELSE IF SchedulersError(c) # "ok" THEN SchedulersError(c)
    ELSE IF LocksError(c) # "ok" THEN LocksError(c)
    ELSE IF c.badtype = "properties" THEN "ValueError"
    ELSE "ok"

\* The checks of do_load that come after changeHorizon is applied.
PostHorizonError(c) ==
    IF \E n \in Range(c.slaves) : n \in {"debug", "change", "status"}
    THEN "KeyError"
    ELSE IF "interlocks" \in c.deprecated THEN "KeyError"
    ELSE IF db_url # "None" /\ c.db_url # db_url THEN "AssertionError"
    ELSE IF c.badtype = "db_poll_interval" THEN "AssertionError"
    ELSE IF /\ db_poll_interval[Self] # Unset
            /\ c.db_poll_interval # db_poll_interval[Self]
    THEN "AssertionError"
    ELSE IF c.badtype \in {"change_source", "schedulers", "status"}
    THEN "AssertionError"
    ELSE IF c.badtype = "builders" THEN "ValueError"
    ELSE IF BuildersError(c) # "ok" THEN BuildersError(c)
    ELSE IF SchedulersError(c) # "ok" THEN SchedulersError(c)
    ELSE IF LocksError(c) # "ok" THEN LocksError(c)
    ELSE IF c.badtype = "properties" THEN "ValueError"
    ELSE "ok"

\* The callbacks do_load adds to the Deferred, and loadConfig after it.
BuildChain(c) ==
    <<"Database", "Slaves">>
    \o (IF c.manhole # manhole
        THEN (IF manhole # "None"
              THEN <<"manhole_disown", "manhole_remove">> ELSE <<>>)
             \o (IF c.manhole # "None" THEN <<"manhole_add">> ELSE <<>>)
        ELSE <<>>)
    \o <<"Builders", "status", "Schedulers", "Sources", "DebugClient",
         "_done", "trigger">>

\* The callbacks with the database step's Deferred not returned.
StepAwaitedButDatabase(step) == step # "Database"

\* Every callback returns the Deferred of its step, so the next callback
\* waits for it.
StepAwaited(step) == TRUE

\* The live graph: what a reconfiguration edits.
LiveGraph ==
    <<db, db_url, db_poll_interval[Self], change_horizon, db_change_horizon,
      settings, slaves, manhole, builders, builder_list, statusTargets,
      schedulers, sources, debugClientRegistration, db_dependents,
      change_subs[Self], new_buildset_subs, poll_timer[Self], wake_timer>>

clusterVars == <<dbVars, last_processed_change, master_objectid, polls,
                 timer_wait, add_pending, add_committed, histVars, apiVars>>

\* The attributes loadConfig assigns from the dictionary once it is valid.
SettingsOf(c) ==
    [projectName |-> c.projectName, properties |-> c.properties,
     slavePortnum |-> c.slavePortnum]

\* The class attributes, before any load.
UnsetSettings ==
    [projectName |-> "(unspecified)", properties |-> "empty",
     slavePortnum |-> "None"]

NoBuilders == [n \in {} |-> B1]

\* A Builder the botmaster had before the loads of the model: object 0 on
\* handle 0, with its slave attached.
InitialBuilder == [obj |-> 0, handle |-> 0, attached |-> {"s1"}]

NoBuilderObjs == [n \in {} |-> InitialBuilder]

\* self.debugClientRegistration = None
NoRegistration == <<"None", "None">>

\* The live graph once BaseConfig has been loaded on a fresh master; timer
\* is the state of the timers set_up_db_dependents has or has not created.
LiveAfterLoad(timer) ==
    /\ db = "DBConnector"
    /\ db_url = DefaultDbUrl
    /\ schema_current = TRUE
    /\ change_horizon = None
    /\ db_change_horizon = None
    /\ settings = SettingsOf(BaseConfig)
    /\ slaves = {"s1"}
    /\ manhole = "None"
    /\ builders = [n \in {"b1"} |-> BuilderDict(B1)]
    /\ builder_objs = [n \in {"b1"} |-> InitialBuilder]
    /\ status_events = <<>>
    /\ debug_live = 0
    /\ builder_list = <<"b1">>
    /\ statusTargets = <<>>
    /\ schedulers = {"all"}
    /\ sources = {}
    /\ debugClientRegistration = NoRegistration
    /\ readConfig = TRUE
    /\ db_dependents = TRUE
    /\ new_buildset_subs = <<"botmaster">>
    /\ wake_timer = timer
    /\ triggers = 1
    /\ loads = <<>>
    /\ reactor = 0

----------------------------------------------------------------------------
\* loadConfig and the reconfiguration chain

\* The callback at the head of load L's chain is called now.
Ready(L, step) ==
    /\ L \in DOMAIN loads
    /\ reactor = L
    /\ loads[L].outcome = "running"
    /\ loads[L].waiting = "none"
    /\ loads[L].chain # <<>>
    /\ Head(loads[L].chain) = step

\* The load after the callback of a step has been called; suspends tells
\* whether the step handed back a Deferred that has not fired.
AfterCall(r, step, suspends) ==
    [r EXCEPT !.started = Append(@, step),
              !.chain = IF suspends /\ StepAwaited(step) THEN @ ELSE Tail(@),
              !.waiting = IF suspends /\ StepAwaited(step)
                          THEN step ELSE "none",
              !.pending = IF suspends THEN @ \cup {step} ELSE @]

ReactorAfterCall(L, step, suspends) ==
    IF suspends /\ StepAwaited(step) THEN 0 ELSE L

\* The load after the Deferred of a step has fired with a result.
AfterResolve(r, step) ==
    [r EXCEPT !.pending = @ \ {step},
              !.waiting = IF @ = step THEN "none" ELSE @,
              !.chain = IF r.waiting = step THEN Tail(@) ELSE @]

ReactorAfterResolve(L, step) ==
    IF loads[L].waiting = step /\ loads[L].outcome = "running"
    THEN L ELSE 0

\* The load after a step has failed: the callbacks that remain are skipped
\* and the errback logs the failure.
AfterFailure(r, step) ==
    IF r.waiting = step \/ step \notin r.pending
    THEN [r EXCEPT !.pending = @ \ {step}, !.waiting = "none",
                   !.chain = <<>>, !.outcome = "failed"]
    ELSE [r EXCEPT !.pending = @ \ {step}]

\* The Deferred of a step is due, and no callback runs.
Pending(L, step) ==
    /\ L \in DOMAIN loads
    /\ reactor = 0
    /\ start_pc # "loading"
    /\ step \in loads[L].pending

\* The body of loadConfig(f, checkOnly): do_load runs at once, the Deferred
\* being fired already.
DoLoad(id, checkOnly) ==
    LET c == Config(id)
        L == Len(loads) + 1
        pre == PreHorizonError(c)
        horizon == pre = "ok" /\ c.changeHorizon # None
        attrErr == horizon /\ db = "None"
        post == PostHorizonError(c)
        outcome == IF pre # "ok" THEN "invalid"
                   ELSE IF attrErr THEN "error"
                   ELSE IF post # "ok" THEN "invalid"
                   ELSE IF checkOnly THEN "checked"
                   ELSE "running"
    IN /\ reactor = 0
       /\ Len(loads) < MaxLoads
       /\ change_horizon' = IF horizon THEN c.changeHorizon
                            ELSE change_horizon
       /\ db_change_horizon' = IF horizon /\ ~attrErr THEN c.changeHorizon
                               ELSE db_change_horizon
       /\ settings' = IF outcome = "running" THEN SettingsOf(c) ELSE settings
       /\ loads' = Append(loads,
              [cfg |-> id, checkOnly |-> checkOnly,
               chain |-> IF outcome = "running" THEN BuildChain(c) ELSE <<>>,
               waiting |-> "none", pending |-> {}, outcome |-> outcome,
               started |-> <<>>, before |-> LiveGraph,
               configured |-> readConfig, added |-> {}])
       /\ reactor' = IF outcome = "running" THEN L ELSE 0
       /\ UNCHANGED <<clusterVars, db_poll_interval, poll_timer, change_subs,
                      db, db_url, schema_current, slaves, manhole, builders,
                      builder_list, statusTargets, schedulers, sources,
                      debugClientRegistration, readConfig, db_dependents,
                      new_buildset_subs, wake_timer, triggers>>

\* loadConfig(f, checkOnly), called by a reload or from outside the master;
\* it does not run in the middle of startService.
LoadConfig(id, checkOnly) ==
    /\ start_pc # "loading"
    /\ DoLoad(id, checkOnly)
    /\ UNCHANGED <<startVars, botVars>>

\* loadConfig_Database with a loadDatabase that makes a connector on every
\* call, whether there is one or not.
DatabaseAlwaysCreates(L) ==
    LET c == Config(loads[L].cfg)
        creates == TRUE
    IN /\ Ready(L, "Database")
       /\ db_url' = c.db_url
       /\ db_poll_interval' = [db_poll_interval EXCEPT
                                  ![Self] = c.db_poll_interval]
       /\ db' = "DBConnector"
       /\ db_change_horizon' = IF creates THEN None ELSE db_change_horizon
       /\ loads' = [loads EXCEPT ![L] = AfterCall(@, "Database", creates)]
       /\ reactor' = ReactorAfterCall(L, "Database", creates)
       /\ UNCHANGED <<clusterVars, startVars, botVars, poll_timer, change_subs, schema_current,
                      change_horizon, settings, slaves, manhole, builders,
                      builder_list, statusTargets, schedulers, sources,
                      debugClientRegistration, readConfig, db_dependents,
                      new_buildset_subs, wake_timer, triggers>>

\* loadConfig_Database: the url and the interval are stored, and
\* loadDatabase creates the connector unless there is one.
Database(L) ==
    LET c == Config(loads[L].cfg)
        creates == db = "None"
    IN /\ Ready(L, "Database")
       /\ db_url' = c.db_url
       /\ db_poll_interval' = [db_poll_interval EXCEPT
                                  ![Self] = c.db_poll_interval]
       /\ db' = "DBConnector"
       /\ db_change_horizon' = IF creates THEN None ELSE db_change_horizon
       /\ loads' = [loads EXCEPT ![L] = AfterCall(@, "Database", creates)]
       /\ reactor' = ReactorAfterCall(L, "Database", creates)
       /\ UNCHANGED <<clusterVars, startVars, botVars, poll_timer, change_subs, schema_current,
                      change_horizon, settings, slaves, manhole, builders,
                      builder_list, statusTargets, schedulers, sources,
                      debugClientRegistration, readConfig, db_dependents,
                      new_buildset_subs, wake_timer, triggers>>

\* is_current has answered and set_up_db_dependents runs whatever the
\* answer is.
DatabaseDoneUnchecked(L) ==
    LET c == Config(loads[L].cfg)
        timers == c.db_poll_interval \notin {None, 0}
    IN /\ Pending(L, "Database")
       /\ db_dependents' = TRUE
       /\ change_subs' = [change_subs EXCEPT ![Self] = Append(@, "status")]
       /\ new_buildset_subs' = Append(new_buildset_subs, "botmaster")
       /\ poll_timer' = IF timers
                        THEN [poll_timer EXCEPT ![Self] = "running"]
                        ELSE poll_timer
       /\ wake_timer' = IF timers THEN "running" ELSE wake_timer
       /\ loads' = [loads EXCEPT ![L] = AfterResolve(@, "Database")]
       /\ reactor' = ReactorAfterResolve(L, "Database")
       /\ UNCHANGED <<clusterVars, startVars, botVars, db_poll_interval, db, db_url,
                      schema_current, change_horizon, db_change_horizon,
                      settings, slaves, manhole, builders, builder_list,
                      statusTargets, schedulers, sources,
                      debugClientRegistration, readConfig, triggers>>

\* is_current has answered: check_current raises on a stale schema, else
\* set_up_db_dependents runs.
DatabaseDone(L) ==
    LET c == Config(loads[L].cfg)
        timers == c.db_poll_interval \notin {None, 0}
    IN /\ Pending(L, "Database")
       /\ IF schema_current
          THEN /\ db_dependents' = TRUE
               /\ change_subs' = [change_subs EXCEPT
                                     ![Self] = Append(@, "status")]
               /\ new_buildset_subs' = Append(new_buildset_subs, "botmaster")
               /\ poll_timer' = IF timers
                                THEN [poll_timer EXCEPT ![Self] = "running"]
                                ELSE poll_timer
               /\ wake_timer' = IF timers THEN "running" ELSE wake_timer
               /\ loads' = [loads EXCEPT ![L] = AfterResolve(@, "Database")]
               /\ reactor' = ReactorAfterResolve(L, "Database")
          ELSE /\ loads' = [loads EXCEPT ![L] = AfterFailure(@, "Database")]
               /\ reactor' = 0
               /\ UNCHANGED <<db_dependents, change_subs, new_buildset_subs,
                              poll_timer, wake_timer>>
       /\ UNCHANGED <<clusterVars, startVars, botVars, db_poll_interval, db, db_url,
                      schema_current, change_horizon, db_change_horizon,
                      settings, slaves, manhole, builders, builder_list,
                      statusTargets, schedulers, sources,
                      debugClientRegistration, readConfig, triggers>>

\* buildbot upgrade-master brings the schema up to date.
UpgradeMaster ==
    /\ ~schema_current
    /\ reactor = 0
    /\ schema_current' = TRUE
    /\ UNCHANGED <<clusterVars, startVars, botVars, db_poll_interval, poll_timer, change_subs,
                   db, db_url, change_horizon, db_change_horizon, settings,
                   slaves, manhole, builders, builder_list, statusTargets,
                   schedulers, sources, debugClientRegistration, readConfig,
                   db_dependents, new_buildset_subs, wake_timer, triggers,
                   loadVars>>

\* loadConfig_Slaves hands the slaves to the botmaster.
Slaves(L) ==
    /\ Ready(L, "Slaves")
    /\ loads' = [loads EXCEPT ![L] = AfterCall(@, "Slaves", TRUE)]
    /\ reactor' = ReactorAfterCall(L, "Slaves", TRUE)
    /\ UNCHANGED <<clusterVars, startVars, botVars, db_poll_interval, poll_timer, change_subs,
                   liveVars>>

\* The botmaster has replaced its slaves.
SlavesDone(L) ==
    /\ Pending(L, "Slaves")
    /\ slaves' = Range(Config(loads[L].cfg).slaves)
    /\ loads' = [loads EXCEPT ![L] = AfterResolve(@, "Slaves")]
    /\ reactor' = ReactorAfterResolve(L, "Slaves")
    /\ UNCHANGED <<clusterVars, startVars, botVars, db_poll_interval, poll_timer, change_subs,
                   db, db_url, schema_current, change_horizon,
                   db_change_horizon, settings, manhole, builders,
                   builder_list, statusTargets, schedulers, sources,
                   debugClientRegistration, readConfig, db_dependents,
                   new_buildset_subs, wake_timer, triggers>>

\* self.manhole.disownServiceParent(), which may return a Deferred; with no
\* manhole left the attribute access raises.
ManholeDisown(L) ==
    /\ Ready(L, "manhole_disown")
    /\ IF manhole = "None"
       THEN /\ loads' = [loads EXCEPT
                            ![L] = AfterFailure(@, "manhole_disown")]
            /\ reactor' = 0
       ELSE \E suspends \in BOOLEAN :
               /\ loads' = [loads EXCEPT
                      ![L] = AfterCall(@, "manhole_disown", suspends)]
               /\ reactor' = ReactorAfterCall(L, "manhole_disown", suspends)
    /\ UNCHANGED <<clusterVars, startVars, botVars, db_poll_interval, poll_timer, change_subs,
                   liveVars>>

\* The old manhole has stopped.
ManholeDisownDone(L) ==
    /\ Pending(L, "manhole_disown")
    /\ loads' = [loads EXCEPT ![L] = AfterResolve(@, "manhole_disown")]
    /\ reactor' = ReactorAfterResolve(L, "manhole_disown")
    /\ UNCHANGED <<clusterVars, startVars, botVars, db_poll_interval, poll_timer, change_subs,
                   liveVars>>

\* _remove
ManholeRemove(L) ==
    /\ Ready(L, "manhole_remove")
    /\ manhole' = "None"
    /\ loads' = [loads EXCEPT ![L] = AfterCall(@, "manhole_remove", FALSE)]
    /\ reactor' = L
    /\ UNCHANGED <<clusterVars, startVars, botVars, db_poll_interval, poll_timer, change_subs,
                   db, db_url, schema_current, change_horizon,
                   db_change_horizon, settings, slaves, builders,
                   builder_list, statusTargets, schedulers, sources,
                   debugClientRegistration, readConfig, db_dependents,
                   new_buildset_subs, wake_timer, triggers>>

\* _add
ManholeAdd(L) ==
    /\ Ready(L, "manhole_add")
    /\ manhole' = Config(loads[L].cfg).manhole
    /\ loads' = [loads EXCEPT ![L] = AfterCall(@, "manhole_add", FALSE)]
    /\ reactor' = L
    /\ UNCHANGED <<clusterVars, startVars, botVars, db_poll_interval, poll_timer, change_subs,
                   db, db_url, schema_current, change_horizon,
                   db_change_horizon, settings, slaves, builders,
                   builder_list, statusTargets, schedulers, sources,
                   debugClientRegistration, readConfig, db_dependents,
                   new_buildset_subs, wake_timer, triggers>>

\* Builder(data, statusbag) for a name the botmaster does not have: the
\* object is identified by the load that made it, its status handle by the
\* load whose status.builderAdded made it; no slave is attached to it.
NewBuilder(L) == [obj |-> L, handle |-> L, attached |-> {}]

\* consumeTheSoulOfYourPredecessor(old): the slavebuilders the old Builder
\* retains are handed over.
ConsumeTheSoul(old) == old.attached

\* The replacement of a Builder made on a handle of its own.
ReplacementBuilderNewHandle(L, old) ==
    [obj |-> L, handle |-> L, attached |-> ConsumeTheSoul(old)]

\* Builder(data, old.builder_status) followed by
\* consumeTheSoulOfYourPredecessor(old): the handle and the retained
\* slavebuilders of the old Builder are those of the new one.
ReplacementBuilder(L, old) ==
    [obj |-> L, handle |-> old.handle, attached |-> ConsumeTheSoul(old)]

\* The calls of loadConfig_Builders with builderRemoved announced twice.
BuilderEventsRemovedTwice(L, newd) ==
    LET names == NamesOf(newd)
        Gone(n) == n \notin Range(names)
        gone == SelectSeq(builder_list, Gone)
        removals == [k \in 1..Len(gone) |->
                        [kind |-> "builderRemoved", name |-> gone[k],
                         handle |-> 0]]
        EventFor(k) ==
            IF names[k] \notin DOMAIN builders
            THEN [kind |-> "builderAdded", name |-> names[k], handle |-> L]
            ELSE IF builders[names[k]] # newd[k]
            THEN [kind |-> "config updated", name |-> names[k],
                  handle |-> builder_objs[names[k]].handle]
            ELSE [kind |-> "none", name |-> names[k], handle |-> 0]
        Real(e) == e.kind # "none"
    IN removals \o removals
       \o SelectSeq([k \in 1..Len(names) |-> EventFor(k)], Real)

\* The calls loadConfig_Builders makes on the status and on the handles:
\* builderRemoved for each name the botmaster has and the configuration has
\* not, then builderAdded for each new name and the point event
\* "config updated" on the handle of each changed one.
BuilderEvents(L, newd) ==
    LET names == NamesOf(newd)
        Gone(n) == n \notin Range(names)
        gone == SelectSeq(builder_list, Gone)
        EventFor(k) ==
            IF names[k] \notin DOMAIN builders
            THEN [kind |-> "builderAdded", name |-> names[k], handle |-> L]
            ELSE IF builders[names[k]] # newd[k]
            THEN [kind |-> "config updated", name |-> names[k],
                  handle |-> builder_objs[names[k]].handle]
            ELSE [kind |-> "none", name |-> names[k], handle |-> 0]
        Real(e) == e.kind # "none"
    IN [k \in 1..Len(gone) |->
           [kind |-> "builderRemoved", name |-> gone[k], handle |-> 0]]
       \o SelectSeq([k \in 1..Len(names) |-> EventFor(k)], Real)

\* loadConfig_Builders: builders removed, added or changed make the
\* botmaster take the new list, in the order of the configuration.
Builders(L) ==
    LET newd == BuilderDicts(Config(loads[L].cfg))
        names == NamesOf(newd)
        removed == DOMAIN builders \ Range(names)
        somethingChanged ==
            \/ removed # {}
            \/ \E k \in 1..Len(names) :
                   \/ names[k] \notin DOMAIN builders
                   \/ builders[names[k]] # newd[k]
        Data(n) == newd[CHOOSE k \in 1..Len(names) : names[k] = n]
    IN /\ Ready(L, "Builders")
       /\ status_events' = status_events \o BuilderEvents(L, newd)
       /\ IF somethingChanged
          THEN /\ builders' = [n \in Range(names) |-> Data(n)]
               /\ builder_objs' = [n \in Range(names) |->
                      IF n \notin DOMAIN builders THEN NewBuilder(L)
                      ELSE IF builders[n] # Data(n)
                      THEN ReplacementBuilder(L, builder_objs[n])
                      ELSE builder_objs[n]]
               /\ builder_list' = names
          ELSE UNCHANGED <<builders, builder_objs, builder_list>>
       /\ loads' = [loads EXCEPT
                       ![L] = AfterCall(@, "Builders", somethingChanged)]
       /\ reactor' = ReactorAfterCall(L, "Builders", somethingChanged)
       /\ UNCHANGED <<clusterVars, startVars, debug_live, db_poll_interval,
                      poll_timer, change_subs,
                      db, db_url, schema_current, change_horizon,
                      db_change_horizon, settings, slaves, manhole,
                      statusTargets, schedulers, sources,
                      debugClientRegistration, readConfig, db_dependents,
                      new_buildset_subs, wake_timer, triggers>>

\* botmaster.setBuilders has finished.
BuildersDone(L) ==
    /\ Pending(L, "Builders")
    /\ loads' = [loads EXCEPT ![L] = AfterResolve(@, "Builders")]
    /\ reactor' = ReactorAfterResolve(L, "Builders")
    /\ UNCHANGED <<clusterVars, startVars, botVars, db_poll_interval, poll_timer, change_subs,
                   liveVars>>

\* addNewOnes of loadConfig_status: the targets of the configuration that
\* are not attached are appended.
RECURSIVE AddNewOnes(_, _)
AddNewOnes(targets, status) ==
    IF status = <<>> THEN targets
    ELSE AddNewOnes(IF Head(status) \in Range(targets) THEN targets
                    ELSE Append(targets, Head(status)),
                    Tail(status))

\* loadConfig_status: the targets that are not in the configuration are
\* removed and told to detach; the new ones are added once they have.
StatusStep(L) ==
    LET status == Config(loads[L].cfg).status
        Kept(s) == s \in Range(status)
        kept == SelectSeq(statusTargets, Kept)
        removes == kept # statusTargets
    IN /\ Ready(L, "status")
       /\ statusTargets' = IF removes THEN kept ELSE AddNewOnes(kept, status)
       /\ loads' = [loads EXCEPT ![L] = AfterCall(@, "status", removes)]
       /\ reactor' = ReactorAfterCall(L, "status", removes)
       /\ UNCHANGED <<clusterVars, startVars, botVars, db_poll_interval, poll_timer, change_subs,
                      db, db_url, schema_current, change_horizon,
                      db_change_horizon, settings, slaves, manhole, builders,
                      builder_list, schedulers, sources,
                      debugClientRegistration, readConfig, db_dependents,
                      new_buildset_subs, wake_timer, triggers>>

\* The removed targets have detached.
StatusDone(L) ==
    /\ Pending(L, "status")
    /\ statusTargets' = AddNewOnes(statusTargets,
                                   Config(loads[L].cfg).status)
    /\ loads' = [loads EXCEPT ![L] = AfterResolve(@, "status")]
    /\ reactor' = ReactorAfterResolve(L, "status")
    /\ UNCHANGED <<clusterVars, startVars, botVars, db_poll_interval, poll_timer, change_subs,
                   db, db_url, schema_current, change_horizon,
                   db_change_horizon, settings, slaves, manhole, builders,
                   builder_list, schedulers, sources,
                   debugClientRegistration, readConfig, db_dependents,
                   new_buildset_subs, wake_timer, triggers>>

\* loadConfig_Schedulers hands the schedulers to the scheduler manager.
Schedulers(L) ==
    /\ Ready(L, "Schedulers")
    /\ loads' = [loads EXCEPT ![L] = AfterCall(@, "Schedulers", TRUE)]
    /\ reactor' = ReactorAfterCall(L, "Schedulers", TRUE)
    /\ UNCHANGED <<clusterVars, startVars, botVars, db_poll_interval, poll_timer, change_subs,
                   liveVars>>

\* The scheduler manager has replaced its schedulers.
SchedulersDone(L) ==
    /\ Pending(L, "Schedulers")
    /\ schedulers' = Range(NamesOf(Config(loads[L].cfg).schedulers))
    /\ loads' = [loads EXCEPT ![L] = AfterResolve(@, "Schedulers")]
    /\ reactor' = ReactorAfterResolve(L, "Schedulers")
    /\ UNCHANGED <<clusterVars, startVars, botVars, db_poll_interval, poll_timer, change_subs,
                   db, db_url, schema_current, change_horizon,
                   db_change_horizon, settings, slaves, manhole, builders,
                   builder_list, statusTargets, sources,
                   debugClientRegistration, readConfig, db_dependents,
                   new_buildset_subs, wake_timer, triggers>>

\* loadConfig_Sources: the sources that are not in the configuration are
\* removed; the added ones, computed now, are attached once those have
\* detached.
Sources(L) ==
    LET new == Range(Config(loads[L].cfg).change_source)
        deleted_sources == sources \ new
        added_sources == new \ sources
        removes == deleted_sources # {}
    IN /\ Ready(L, "Sources")
       /\ sources' = IF removes THEN sources \ deleted_sources
                     ELSE sources \cup added_sources
       /\ loads' = [loads EXCEPT
              ![L] = [AfterCall(@, "Sources", removes)
                          EXCEPT !.added = added_sources]]
       /\ reactor' = ReactorAfterCall(L, "Sources", removes)
       /\ UNCHANGED <<clusterVars, startVars, botVars, db_poll_interval, poll_timer, change_subs,
                      db, db_url, schema_current, change_horizon,
                      db_change_horizon, settings, slaves, manhole, builders,
                      builder_list, statusTargets, schedulers,
                      debugClientRegistration, readConfig, db_dependents,
                      new_buildset_subs, wake_timer, triggers>>

\* The removed sources have detached.
SourcesDone(L) ==
    /\ Pending(L, "Sources")
    /\ sources' = sources \cup loads[L].added
    /\ loads' = [loads EXCEPT ![L] = AfterResolve(@, "Sources")]
    /\ reactor' = ReactorAfterResolve(L, "Sources")
    /\ UNCHANGED <<clusterVars, startVars, botVars, db_poll_interval, poll_timer, change_subs,
                   db, db_url, schema_current, change_horizon,
                   db_change_horizon, settings, slaves, manhole, builders,
                   builder_list, statusTargets, schedulers,
                   debugClientRegistration, readConfig, db_dependents,
                   new_buildset_subs, wake_timer, triggers>>

\* reg of loadConfig_DebugClient
Registration(c) ==
    IF c.debugPassword # "None"
    THEN <<settings.slavePortnum, c.debugPassword>>
    ELSE NoRegistration

\* loadConfig_DebugClient: the old registration is dropped, and the new
\* one is made once it is gone.  A registration is live on the pbmanager
\* from registerDebugClient until its unregister() has finished.
DebugClient(L) ==
    LET c == Config(loads[L].cfg)
        unregisters == debugClientRegistration # NoRegistration
    IN /\ Ready(L, "DebugClient")
       /\ debugClientRegistration' =
              IF unregisters THEN NoRegistration ELSE Registration(c)
       /\ debug_live' =
              IF ~unregisters /\ Registration(c) # NoRegistration
              THEN debug_live + 1 ELSE debug_live
       /\ loads' = [loads EXCEPT
                       ![L] = AfterCall(@, "DebugClient", unregisters)]
       /\ reactor' = ReactorAfterCall(L, "DebugClient", unregisters)
       /\ UNCHANGED <<clusterVars, startVars, builder_objs, status_events,
                      db_poll_interval, poll_timer, change_subs,
                      db, db_url, schema_current, change_horizon,
                      db_change_horizon, settings, slaves, manhole, builders,
                      builder_list, statusTargets, schedulers, sources,
                      readConfig, db_dependents, new_buildset_subs,
                      wake_timer, triggers>>

\* The old registration is gone: reg runs.
DebugClientDone(L) ==
    /\ Pending(L, "DebugClient")
    /\ debugClientRegistration' = Registration(Config(loads[L].cfg))
    /\ debug_live' = debug_live - 1 +
           (IF Registration(Config(loads[L].cfg)) # NoRegistration
            THEN 1 ELSE 0)
    /\ loads' = [loads EXCEPT ![L] = AfterResolve(@, "DebugClient")]
    /\ reactor' = ReactorAfterResolve(L, "DebugClient")
    /\ UNCHANGED <<clusterVars, startVars, builder_objs, status_events,
                   db_poll_interval, poll_timer, change_subs,
                   db, db_url, schema_current, change_horizon,
                   db_change_horizon, settings, slaves, manhole, builders,
                   builder_list, statusTargets, schedulers, sources,
                   readConfig, db_dependents, new_buildset_subs,
                   wake_timer, triggers>>

\* _done
Done(L) ==
    /\ Ready(L, "_done")
    /\ readConfig' = TRUE
    /\ loads' = [loads EXCEPT ![L] = AfterCall(@, "_done", FALSE)]
    /\ reactor' = L
    /\ UNCHANGED <<clusterVars, startVars, botVars, db_poll_interval, poll_timer, change_subs,
                   db, db_url, schema_current, change_horizon,
                   db_change_horizon, settings, slaves, manhole, builders,
                   builder_list, statusTargets, schedulers, sources,
                   debugClientRegistration, db_dependents, new_buildset_subs,
                   wake_timer, triggers>>

\* The last callback with the loop triggered a second time.
TriggerTwice(L) ==
    /\ Ready(L, "trigger")
    /\ triggers' = triggers + 2
    /\ loads' = [loads EXCEPT
           ![L] = [AfterCall(@, "trigger", FALSE)
                       EXCEPT !.outcome = "done"]]
    /\ reactor' = 0
    /\ UNCHANGED <<clusterVars, startVars, botVars, db_poll_interval, poll_timer, change_subs,
                   db, db_url, schema_current, change_horizon,
                   db_change_horizon, settings, slaves, manhole, builders,
                   builder_list, statusTargets, schedulers, sources,
                   debugClientRegistration, readConfig, db_dependents,
                   new_buildset_subs, wake_timer>>

\* The last callback: botmaster.loop.trigger().
Trigger(L) ==
    /\ Ready(L, "trigger")
    /\ triggers' = triggers + 1
    /\ loads' = [loads EXCEPT
           ![L] = [AfterCall(@, "trigger", FALSE)
                       EXCEPT !.outcome = "done"]]
    /\ reactor' = 0
    /\ UNCHANGED <<clusterVars, startVars, botVars, db_poll_interval, poll_timer, change_subs,
                   db, db_url, schema_current, change_horizon,
                   db_change_horizon, settings, slaves, manhole, builders,
                   builder_list, statusTargets, schedulers, sources,
                   debugClientRegistration, readConfig, db_dependents,
                   new_buildset_subs, wake_timer>>

\* The steps whose Deferred the model lets fire with a failure: the slaves
\* of the botmaster, a status target and a change source that detach.
FailingSteps == {"Slaves", "status", "Sources"}

\* The Deferred of a step fires with a failure.
StepFail(L, step) ==
    /\ Pending(L, step)
    /\ step \in FailingSteps
    /\ loads' = [loads EXCEPT ![L] = AfterFailure(@, step)]
    /\ reactor' = 0
    /\ UNCHANGED <<clusterVars, startVars, botVars, db_poll_interval, poll_timer, change_subs,
                   liveVars>>

\* A master as __init__ leaves it, that is then configured and
\* reconfigured.
InitLoad ==
    /\ changes = {}
    /\ next_changeid = 1
    /\ db_objects = <<>>
    /\ db_state = <<>>
    /\ db_poll_interval = [m \in Masters |-> Unset]
    /\ last_processed_change = [m \in Masters |-> None]
    /\ master_objectid = [m \in Masters |-> None]
    /\ polls = [m \in Masters |-> [i \in PollSlots |-> NoPoll]]
    /\ poll_timer = [m \in Masters |-> "absent"]
    /\ timer_wait = [m \in Masters |-> 0]
    /\ add_pending = [m \in Masters |-> 0]
    /\ add_committed = [m \in Masters |-> {}]
    /\ change_subs = [m \in Masters |-> <<>>]
    /\ delivered = [m \in Masters |-> <<>>]
    /\ invoked = [m \in Masters |-> <<>>]
    /\ inc_start = [m \in Masters |-> 0]
    /\ init_mark = [m \in Masters |-> None]
    /\ restarts = 0
    /\ db = "None"
    /\ db_url = "None"
    /\ schema_current \in BOOLEAN
    /\ change_horizon = None
    /\ db_change_horizon = None
    /\ settings = UnsetSettings
    /\ slaves = {}
    /\ manhole = "None"
    /\ builders = NoBuilders
    /\ builder_objs = NoBuilderObjs
    /\ status_events = <<>>
    /\ debug_live = 0
    /\ builder_list = <<>>
    /\ statusTargets = <<>>
    /\ schedulers = {}
    /\ sources = {}
    /\ debugClientRegistration = NoRegistration
    /\ readConfig = FALSE
    /\ db_dependents = FALSE
    /\ new_buildset_subs = <<>>
    /\ wake_timer = "absent"
    /\ triggers = 0
    /\ loads = <<>>
    /\ reactor = 0
    /\ start_pc = "created"
    /\ start_load = 0
    /\ master_started = {}
    /\ bs_calls = <<>>
    /\ next_bsid = 1
    /\ bs_bus = <<>>
    /\ control_log = <<>>

NextLoad ==
    \/ \E id \in ConfigIds : LoadConfig(id, FALSE)
    \/ \E id \in CheckedIds : LoadConfig(id, TRUE)
    \/ UpgradeMaster
    \/ \E L \in 1..MaxLoads :
        \/ Database(L)
        \/ DatabaseDone(L)
        \/ Slaves(L)
        \/ SlavesDone(L)
        \/ ManholeDisown(L)
        \/ ManholeDisownDone(L)
        \/ ManholeRemove(L)
        \/ ManholeAdd(L)
        \/ Builders(L)
        \/ BuildersDone(L)
        \/ StatusStep(L)
        \/ StatusDone(L)
        \/ Schedulers(L)
        \/ SchedulersDone(L)
        \/ Sources(L)
        \/ SourcesDone(L)
        \/ DebugClient(L)
        \/ DebugClientDone(L)
        \/ Done(L)
        \/ Trigger(L)
        \/ \E step \in FailingSteps : StepFail(L, step)

SpecLoad == InitLoad /\ [][NextLoad]_vars

----------------------------------------------------------------------------
\* addBuildset and the Control facade

\* The keyword arguments of an addBuildset call.
BuildsetFields == {"force b1", "try b2"}

\* A call that has gone to db.buildsets.addBuildset, and whose Deferred
\* notify waits for; via tells whether the caller went through Control.
NewBuildsetCall(m, via, fields) ==
    [master |-> m, via |-> via, fields |-> fields, status |-> "pending",
     bsid |-> None, returned |-> None]

\* The calls made so far, of addBuildset and through Control.
CallsMade == Len(bs_calls) + Len(control_log)

\* BuildMaster.addBuildset(**kwargs)
AddBuildsetCall(m, fields) ==
    /\ CallsMade < MaxCalls
    /\ bs_calls' = Append(bs_calls, NewBuildsetCall(m, "master", fields))
    /\ UNCHANGED <<dbVars, masterVars, histVars, liveVars, loadVars,
                   startVars, botVars, next_bsid, bs_bus, control_log>>

\* Control.addBuildset(**kwargs) returns self.master.addBuildset(**kwargs).
ControlAddBuildset(m, fields) ==
    /\ CallsMade < MaxCalls
    /\ bs_calls' = Append(bs_calls, NewBuildsetCall(m, "control", fields))
    /\ UNCHANGED <<dbVars, masterVars, histVars, liveVars, loadVars,
                   startVars, botVars, next_bsid, bs_bus, control_log>>

\* The write commits in the database's worker pool: the buildset gets the
\* next bsid.  The Deferred of the call has not fired yet.
AddBuildsetCommit(k) ==
    /\ k \in DOMAIN bs_calls
    /\ bs_calls[k].status = "pending"
    /\ bs_calls' = [bs_calls EXCEPT ![k].status = "committed",
                                    ![k].bsid = next_bsid]
    /\ next_bsid' = next_bsid + 1
    /\ UNCHANGED <<dbVars, masterVars, histVars, liveVars, loadVars,
                   startVars, botVars, bs_bus, control_log>>

\* addBuildset.notify with the delivery made twice.
AddBuildsetNotifyTwice(k) ==
    /\ k \in DOMAIN bs_calls
    /\ bs_calls[k].status = "committed"
    /\ bs_bus' = bs_bus \o
           << [master |-> bs_calls[k].master, call |-> k,
               bsid |-> bs_calls[k].bsid, fields |-> bs_calls[k].fields],
              [master |-> bs_calls[k].master, call |-> k,
               bsid |-> bs_calls[k].bsid, fields |-> bs_calls[k].fields] >>
    /\ bs_calls' = [bs_calls EXCEPT ![k].status = "ok",
                                    ![k].returned = bs_calls[k].bsid]
    /\ UNCHANGED <<dbVars, masterVars, histVars, liveVars, loadVars,
                   startVars, botVars, next_bsid, control_log>>

\* The Deferred of a committed write fires: addBuildset.notify delivers
\* bsid and the keyword arguments on the new-buildset bus of this master and
\* hands the bsid on to the caller.
AddBuildsetNotify(k) ==
    /\ k \in DOMAIN bs_calls
    /\ bs_calls[k].status = "committed"
    /\ bs_bus' = Append(bs_bus,
           [master |-> bs_calls[k].master, call |-> k,
            bsid |-> bs_calls[k].bsid, fields |-> bs_calls[k].fields])
    /\ bs_calls' = [bs_calls EXCEPT ![k].status = "ok",
                                    ![k].returned = bs_calls[k].bsid]
    /\ UNCHANGED <<dbVars, masterVars, histVars, liveVars, loadVars,
                   startVars, botVars, next_bsid, control_log>>

\* The write fails: notify is not called, and the caller gets the failure.
AddBuildsetFail(k) ==
    /\ k \in DOMAIN bs_calls
    /\ bs_calls[k].status = "pending"
    /\ bs_calls' = [bs_calls EXCEPT ![k].status = "failed"]
    /\ UNCHANGED <<dbVars, masterVars, histVars, liveVars, loadVars,
                   startVars, botVars, next_bsid, bs_bus, control_log>>

\* Control.addChange(change) calls self.master.addChange(change): addChange
\* takes keyword arguments only, so the call raises TypeError before it
\* reaches the database; had it returned, Control.addChange would still
\* return nothing.
ControlAddChange(m) ==
    /\ CallsMade < MaxCalls
    /\ control_log' = Append(control_log,
           [master |-> m, raised |-> "TypeError", issued |-> FALSE,
            returned |-> "nothing"])
    /\ UNCHANGED <<dbVars, masterVars, histVars, liveVars, loadVars,
                   startVars, botVars, bs_calls, next_bsid, bs_bus>>

\* The callers of addBuildset and of the Control facade, on masters that
\* have loaded their configuration.
NextApi ==
    \/ \E m \in Masters, fields \in BuildsetFields :
           \/ AddBuildsetCall(m, fields)
           \/ ControlAddBuildset(m, fields)
    \/ \E k \in 1..MaxCalls :
           \/ AddBuildsetCommit(k)
           \/ AddBuildsetNotify(k)
           \/ AddBuildsetFail(k)
    \/ \E m \in Masters : ControlAddChange(m)

----------------------------------------------------------------------------
\* startService

\* startService up to the return of loadTheConfigFile: when no configuration
\* has been read the initial load is made, and its callbacks run as far as
\* the first Deferred that has not fired; else the master goes on to its
\* builders at once.
StartService(id) ==
    /\ start_pc = "created"
    /\ IF readConfig
       THEN /\ reactor = 0
            /\ start_pc' = "started"
            /\ master_started' = DOMAIN builders
            /\ UNCHANGED <<dbVars, masterVars, histVars, liveVars, loadVars,
                           apiVars, botVars, start_load>>
       ELSE /\ DoLoad(id, FALSE)
            /\ start_pc' = "loading"
            /\ start_load' = Len(loads) + 1
            /\ UNCHANGED <<master_started, botVars>>

\* The rest of startService, once loadTheConfigFile has returned: every
\* builder the botmaster has now gets the point event "master started".
StartServiceReturn ==
    /\ start_pc = "loading"
    /\ reactor = 0
    /\ start_pc' = "started"
    /\ master_started' = DOMAIN builders
    /\ UNCHANGED <<dbVars, masterVars, histVars, liveVars, loadVars, apiVars,
                   botVars, start_load>>

\* The configuration files of the master that is started.
StartIds == {"base", "full", "dup_builder"}

\* loadConfig is called on a master that has not been started and has
\* loaded nothing yet.
LoadBeforeStart(id) ==
    /\ start_pc = "created"
    /\ loads = <<>>
    /\ LoadConfig(id, FALSE)

\* A master is created and started; loadConfig may have been called on it
\* before.
NextStart ==
    \/ \E id \in StartIds : StartService(id)
    \/ StartServiceReturn
    \/ \E id \in StartIds : LoadBeforeStart(id)
    \/ UpgradeMaster
    \/ \E L \in 1..MaxLoads :
        \/ Database(L)
        \/ DatabaseDone(L)
        \/ Slaves(L)
        \/ SlavesDone(L)
        \/ ManholeDisown(L)
        \/ ManholeDisownDone(L)
        \/ ManholeRemove(L)
        \/ ManholeAdd(L)
        \/ Builders(L)
        \/ BuildersDone(L)
        \/ StatusStep(L)
        \/ StatusDone(L)
        \/ Schedulers(L)
        \/ SchedulersDone(L)
        \/ Sources(L)
        \/ SourcesDone(L)
        \/ DebugClient(L)
        \/ DebugClientDone(L)
        \/ Done(L)
        \/ Trigger(L)
        \/ \E step \in FailingSteps : StepFail(L, step)

SpecStart == InitLoad /\ [][NextStart]_vars

----------------------------------------------------------------------------
\* The validation of do_load over configurations that each break one rule,
\* or come close to breaking one: a fresh master is given them, to check
\* them only or to load them.  A load is followed to the end of do_load;
\* the callbacks that a valid configuration adds are those of SpecLoad.

ValidationIds ==
    {"base", "dup_name", "same_dir", "translated_dir", "lock_clash",
     "lock_shared", "undeclared_slave", "undeclared_slavename", "underscore",
     "reserved_debug", "reserved_change", "reserved_status", "dup_slave",
     "two_slaves", "dup_scheduler", "unknown_builder",
     "unknown_builder_multi", "bad_type", "no_builders", "bots",
     "interlocks", "horizon"}

NextCheck ==
    \/ \E id \in ValidationIds : LoadConfig(id, FALSE)
    \/ \E id \in ValidationIds : LoadConfig(id, TRUE)

SpecCheck == InitLoad /\ [][NextCheck]_vars

----------------------------------------------------------------------------
\* Reloads of a master that is configured

\* The configurations a configured master is reloaded with: one that
\* declares less than it has, and one that changes the builddir of a
\* builder, leaves another builder as it is, and declares one more builder
\* and another status target, change source and debug password.
ReloadIds == {"less", "more"}

\* The master after FullConfig has been loaded on it: its two builders have
\* their slave attached, and its debug registration is live.
InitReload ==
    /\ changes = {}
    /\ next_changeid = 1
    /\ db_objects = <<>>
    /\ db_state = <<>>
    /\ db_poll_interval = [m \in Masters |-> None]
    /\ last_processed_change = [m \in Masters |-> None]
    /\ master_objectid = [m \in Masters |-> None]
    /\ polls = [m \in Masters |-> [i \in PollSlots |-> NoPoll]]
    /\ poll_timer = [m \in Masters |-> "absent"]
    /\ timer_wait = [m \in Masters |-> 0]
    /\ add_pending = [m \in Masters |-> 0]
    /\ add_committed = [m \in Masters |-> {}]
    /\ change_subs = [m \in Masters |-> <<"status">>]
    /\ delivered = [m \in Masters |-> <<>>]
    /\ invoked = [m \in Masters |-> <<>>]
    /\ inc_start = [m \in Masters |-> 0]
    /\ init_mark = [m \in Masters |-> None]
    /\ restarts = 0
    /\ db = "DBConnector"
    /\ db_url = DefaultDbUrl
    /\ schema_current = TRUE
    /\ change_horizon = None
    /\ db_change_horizon = None
    /\ settings = SettingsOf(FullConfig)
    /\ slaves = {"s1"}
    /\ manhole = "mh1"
    /\ builders = [n \in {"b1", "b2"} |->
                      IF n = "b1" THEN BuilderDict(B1) ELSE BuilderDict(B2)]
    /\ builder_objs = [n \in {"b1", "b2"} |-> InitialBuilder]
    /\ status_events = <<>>
    /\ debug_live = 1
    /\ builder_list = <<"b1", "b2">>
    /\ statusTargets = <<"st1">>
    /\ schedulers = {"all"}
    /\ sources = {"cs1"}
    /\ debugClientRegistration = <<"tcp:9989", "pw1">>
    /\ readConfig = TRUE
    /\ db_dependents = TRUE
    /\ new_buildset_subs = <<"botmaster">>
    /\ wake_timer = "absent"
    /\ triggers = 1
    /\ loads = <<>>
    /\ reactor = 0
    /\ start_pc = "started"
    /\ start_load = 0
    /\ master_started = {"b1", "b2"}
    /\ bs_calls = <<>>
    /\ next_bsid = 1
    /\ bs_bus = <<>>
    /\ control_log = <<>>

NextReload ==
    \/ \E id \in ReloadIds : LoadConfig(id, FALSE)
    \/ \E L \in 1..MaxLoads :
        \/ Database(L)
        \/ Slaves(L)
        \/ SlavesDone(L)
        \/ Builders(L)
        \/ BuildersDone(L)
        \/ StatusStep(L)
        \/ StatusDone(L)
        \/ Schedulers(L)
        \/ SchedulersDone(L)
        \/ Sources(L)
        \/ SourcesDone(L)
        \/ DebugClient(L)
        \/ DebugClientDone(L)
        \/ Done(L)
        \/ Trigger(L)

SpecReload == InitReload /\ [][NextReload]_vars

----------------------------------------------------------------------------
\* The polling cluster: every master has loaded a configuration that sets
\* db_poll_interval, so its database is attached, the status is subscribed
\* to its changes bus and its poll timer runs.

InitPoll ==
    /\ changes = {}
    /\ next_changeid = 1
    /\ db_objects = <<>>
    /\ db_state = <<>>
    /\ db_poll_interval = [m \in Masters |-> PollInterval]
    /\ last_processed_change = [m \in Masters |-> None]
    /\ master_objectid = [m \in Masters |-> None]
    /\ polls = [m \in Masters |-> [i \in PollSlots |-> NoPoll]]
    /\ poll_timer = [m \in Masters |-> "running"]
    /\ timer_wait = [m \in Masters |-> 0]
    /\ add_pending = [m \in Masters |-> 0]
    /\ add_committed = [m \in Masters |-> {}]
    /\ change_subs = [m \in Masters |-> <<"status">>]
    /\ delivered = [m \in Masters |-> <<>>]
    /\ invoked = [m \in Masters |-> <<>>]
    /\ inc_start = [m \in Masters |-> 0]
    /\ init_mark = [m \in Masters |-> None]
    /\ restarts = 0
    /\ LiveAfterLoad("running")
    /\ start_pc = "started"
    /\ start_load = 0
    /\ master_started = {}
    /\ bs_calls = <<>>
    /\ next_bsid = 1
    /\ bs_bus = <<>>
    /\ control_log = <<>>

NextPoll ==
    \/ DbWriteChange
    \/ DbSkipChangeid
    \/ \E m \in Masters :
        \/ TimerFire(m)
        \/ Restart(m)
        \/ \E i \in PollSlots :
               \/ GetObjectIdDone(m, i)
               \/ GetStateDone(m, i)
               \/ GetLatestDone(m, i)
               \/ FetchDone(m, i)
               \/ SetStateDone(m, i)
               \/ PollFail(m, i)

SpecPoll == InitPoll /\ [][NextPoll]_vars

----------------------------------------------------------------------------
\* The cluster without polling: every master has loaded a configuration
\* that leaves db_poll_interval unset, so its database is attached, the
\* status is subscribed to its changes bus and no poll timer exists.

\* The observers that subscribe and unsubscribe.
Observers == {"O1", "O2"}

InitBus ==
    /\ changes = {}
    /\ next_changeid = 1
    /\ db_objects = <<>>
    /\ db_state = <<>>
    /\ db_poll_interval = [m \in Masters |-> None]
    /\ last_processed_change = [m \in Masters |-> None]
    /\ master_objectid = [m \in Masters |-> None]
    /\ polls = [m \in Masters |-> [i \in PollSlots |-> NoPoll]]
    /\ poll_timer = [m \in Masters |-> "absent"]
    /\ timer_wait = [m \in Masters |-> 0]
    /\ add_pending = [m \in Masters |-> 0]
    /\ add_committed = [m \in Masters |-> {}]
    /\ change_subs = [m \in Masters |-> <<"status">>]
    /\ delivered = [m \in Masters |-> <<>>]
    /\ invoked = [m \in Masters |-> <<>>]
    /\ inc_start = [m \in Masters |-> 0]
    /\ init_mark = [m \in Masters |-> None]
    /\ restarts = 0
    /\ LiveAfterLoad("absent")
    /\ start_pc = "started"
    /\ start_load = 0
    /\ master_started = {}
    /\ bs_calls = <<>>
    /\ next_bsid = 1
    /\ bs_bus = <<>>
    /\ control_log = <<>>

NextBus ==
    \E m \in Masters :
        \/ AddChangeCall(m)
        \/ AddChangeCommit(m)
        \/ \E c \in add_committed[m] : AddChangeNotify(m, c)
        \/ AddChangeFail(m)
        \/ \E o \in Observers : SubscribeToChanges(m, o)
        \/ \E o \in Observers : Unsubscribe(m, o)

SpecBus == InitBus /\ [][NextBus]_vars

\* The same cluster, seen from the callers of addBuildset and of Control.
SpecApi == InitBus /\ [][NextApi]_vars

----------------------------------------------------------------------------
\* Properties of addChange without polling (checked under SpecBus)

\* C3, as claimed: on a master that does not poll, the changes reach the
\* changes bus in the order in which they were inserted into the database
\* (the order of their changeids), each once.
C3_AsClaimed ==
    \A m \in Masters :
        db_poll_interval[m] = None =>
            \A j, k \in 1..Len(delivered[m]) :
                j < k => delivered[m][j] < delivered[m][k]

----------------------------------------------------------------------------
\* Properties of the poller (checked under SpecPoll)

\* The deliveries of the current run of master m.
RunDelivered(m) ==
    SubSeq(delivered[m], inc_start[m] + 1, Len(delivered[m]))

HighestDelivered(m) ==
    IF delivered[m] = <<>> THEN None ELSE Max(Range(delivered[m]))

\* C4, as claimed: every change of the database that the master counts as
\* processed (its id is at most the master's mark) has been delivered on the
\* master's changes bus exactly once.
C4_AsClaimed ==
    \A m \in Masters : \A c \in changes :
        (last_processed_change[m] # None /\ c <= last_processed_change[m])
            => Count(delivered[m], c) = 1

\* C4, amended: in one run of a master the poller delivers exactly the
\* changeids after the mark the run first loaded or initialised, up to its
\* current mark, each once and in increasing order; nothing at or below
\* that first mark is delivered.
C4_RunDeliversAboveFirstMark ==
    \A m \in Masters :
        /\ init_mark[m] = None => RunDelivered(m) = <<>>
        /\ init_mark[m] # None =>
               /\ last_processed_change[m] >= init_mark[m]
               /\ RunDelivered(m) =
                      [k \in 1..(last_processed_change[m] - init_mark[m]) |->
                          init_mark[m] + k]
               /\ Range(RunDelivered(m)) \subseteq changes

\* C4, witness: a master has delivered two changes in order, and a change
\* written before its mark was initialised was never delivered to it.
C4_Witness ==
    \E m \in Masters :
        /\ init_mark[m] # None
        /\ Len(RunDelivered(m)) >= 2
        /\ \E c \in changes :
               c <= init_mark[m] /\ c \notin Range(delivered[m])

\* C5, as claimed: at every delivery made by the poller, the changeid
\* delivered is greater than the last_processed_change persisted for the
\* master at that moment.
C5_AsClaimed ==
    [][\A m \in Masters :
           delivered'[m] # delivered[m] =>
               delivered'[m][Len(delivered'[m])] > PersistedMark(m)]_vars

\* C6, as claimed: over the whole life of a master, restarts included, the
\* changeids delivered on its bus are strictly increasing: none is delivered
\* again.
C6_AsClaimed ==
    \A m \in Masters :
        \A j, k \in 1..Len(delivered[m]) :
            j < k => delivered[m][j] < delivered[m][k]

\* C7, as claimed: the in-memory mark is at most the highest changeid the
\* master has delivered, and the persisted mark is at most the in-memory
\* mark.
C7_AsClaimed ==
    \A m \in Masters :
        last_processed_change[m] # None =>
            /\ last_processed_change[m] <= HighestDelivered(m)
            /\ PersistedMark(m) <= last_processed_change[m]

\* C7, amended: whenever the loop advances a mark that is set, the new mark
\* is the changeid delivered in that same step; and every write of the
\* persisted mark is made by a master whose in-memory mark is the value
\* written.
C7_MarkFollowsDelivery ==
    [][/\ \A m \in Masters :
              (/\ last_processed_change[m] # None
               /\ last_processed_change'[m] # None
               /\ last_processed_change'[m] # last_processed_change[m])
                  => delivered'[m] =
                         Append(delivered[m], last_processed_change'[m])
       /\ db_state' # db_state =>
              \E w \in Masters : \E i \in PollSlots :
                  /\ polls[w][i].pc = "setState"
                  /\ polls'[w][i].pc = "none"
                  /\ db_state'[master_objectid[w]] = last_processed_change[w]
      ]_vars

\* C7, witness: a master has delivered a change past its first mark and the
\* persisted mark has caught up with its in-memory mark.
C7_Witness ==
    \E m \in Masters :
        /\ init_mark[m] # None
        /\ last_processed_change[m] > init_mark[m]
        /\ delivered[m][Len(delivered[m])] = last_processed_change[m]
        /\ PersistedMark(m) = last_processed_change[m]

\* C9: in every master at most one invocation of pollDatabaseChanges is in
\* flight.
C9_PollsSerialised ==
    \A m \in Masters : Cardinality(InFlight(m)) <= 1

\* C9, witness: a poll that has delivered a change is still in flight, and
\* the timer waits for it.
C9_Witness ==
    \E m \in Masters : \E i \in PollSlots :
        /\ polls[m][i].pc = "fetch"
        /\ polls[m][i].need_setState
        /\ RunDelivered(m) # <<>>
        /\ timer_wait[m] = i

----------------------------------------------------------------------------
\* Properties of loadConfig

\* C1 (as claimed): a load whose configuration violates a validation rule
\* fails and leaves every part of the live state, the change horizon
\* included, equal to its value before the load.
C1_AsClaimed ==
    [][(/\ Len(loads') > Len(loads)
        /\ loads'[Len(loads')].outcome = "invalid")
       => LiveGraph' = LiveGraph]_vars

\* C2 (as claimed): when a step of the reconfiguration fails after the
\* validation has passed, the live graph afterwards equals the live graph
\* before the reload began.  Stated for a reload that no other load overlaps.
C2_AsClaimed ==
    (Len(loads) = 1 /\ loads[1].outcome = "failed")
        => LiveGraph = loads[1].before

\* The place of each callback in the chain that do_load and loadConfig build.
StepRank(step) ==
    CASE step = "Database" -> 1
      [] step = "Slaves" -> 2
      [] step = "manhole_disown" -> 3
      [] step = "manhole_remove" -> 4
      [] step = "manhole_add" -> 5
      [] step = "Builders" -> 6
      [] step = "status" -> 7
      [] step = "Schedulers" -> 8
      [] step = "Sources" -> 9
      [] step = "DebugClient" -> 10
      [] step = "_done" -> 11
      [] step = "trigger" -> 12

\* The steps every reconfiguration runs.
MainSteps == {"Database", "Slaves", "Builders", "status", "Schedulers",
              "Sources", "DebugClient"}

\* C8: in every reconfiguration the steps start in the order database,
\* slaves, manhole, builders, status targets, schedulers, change sources,
\* debug client: the first step to start is the database step and each
\* later one comes after the one started before it; a step starts only when
\* no Deferred of an earlier step of that reconfiguration is unresolved; a
\* reconfiguration that completes has run every step.
C8_StepsInOrder ==
    [][\A L \in DOMAIN loads :
          LET old == loads[L].started
              new == loads'[L].started
          IN /\ Len(new) > Len(old) =>
                    /\ loads[L].pending = {}
                    /\ new = Append(old, new[Len(new)])
                    /\ IF old = <<>> THEN new = <<"Database">>
                       ELSE StepRank(old[Len(old)]) < StepRank(new[Len(new)])
             /\ loads'[L].outcome = "done" => MainSteps \subseteq Range(new)
      ]_vars

\* The first load of a master has completed: it waited for the schema check
\* and for the slaves, and it attached a manhole on its way.
C8_Witness ==
    /\ Len(loads) >= 1
    /\ loads[1].outcome = "done"
    /\ loads[1].started =
           <<"Database", "Slaves", "manhole_add", "Builders", "status",
             "Schedulers", "Sources", "DebugClient", "_done", "trigger">>

\* C10: once a load has succeeded, db_url, db_poll_interval and the DB
\* connector never change, and a load whose configuration gives another
\* db_url or another db_poll_interval fails its validation.
C10_WriteOnce ==
    [][/\ readConfig => /\ db_url' = db_url
                        /\ db_poll_interval'[Self] = db_poll_interval[Self]
                        /\ db' = db
       /\ \A L \in DOMAIN loads' \ DOMAIN loads :
              (/\ readConfig
               /\ \/ Config(loads'[L].cfg).db_url # db_url
                  \/ Config(loads'[L].cfg).db_poll_interval
                         # db_poll_interval[Self])
              => loads'[L].outcome = "invalid"]_vars

\* A configured master has been given a configuration with another db_url:
\* the load has failed and the url is the one of the first load.
C10_Witness ==
    \E L \in DOMAIN loads :
        /\ loads[L].configured
        /\ loads[L].cfg = "other_url"
        /\ loads[L].outcome = "invalid"
        /\ db_url = DefaultDbUrl
        /\ db = "DBConnector"

----------------------------------------------------------------------------
\* Properties of the validation

\* A load that has passed the validation of do_load.
Passed(r) == r.outcome \in {"running", "checked", "done"}

\* C11: every load that succeeds has pairwise distinct builder names,
\* pairwise distinct build directories once the default safeTranslate(name)
\* is applied, at most one lock identity for each lock name over the locks of
\* all builders and of all factory steps, and only slave references that are
\* in the slave set; a configuration that breaks one of these fails to load.
C11_SucceededLoadIsConsistent ==
    \A L \in DOMAIN loads :
        LET c == Config(loads[L].cfg)
            bs == c.builders
            dir(k) == IF bs[k].builddir = "" THEN SafeTranslate(bs[k].name)
                      ELSE bs[k].builddir
            lockset == UNION {Range(bs[k].locks) \cup Range(bs[k].steplocks) :
                              k \in 1..Len(bs)}
        IN Passed(loads[L]) =>
              /\ \A j, k \in 1..Len(bs) : j # k => bs[j].name # bs[k].name
              /\ \A j, k \in 1..Len(bs) : j # k => dir(j) # dir(k)
              /\ \A l1, l2 \in lockset : l1.name = l2.name => l1.id = l2.id
              /\ \A k \in 1..Len(bs) :
                    /\ bs[k].slavename # "" =>
                           bs[k].slavename \in Range(c.slaves)
                    /\ Range(bs[k].slavenames) \subseteq Range(c.slaves)

\* Two builders whose names translate to one build directory have been
\* rejected, and two builders that share one lock identity have passed.
C11_Witness ==
    \E L1, L2 \in DOMAIN loads :
        /\ loads[L1].cfg = "translated_dir"
        /\ loads[L1].outcome = "invalid"
        /\ loads[L2].cfg = "lock_shared"
        /\ Passed(loads[L2])

\* C12 (as claimed): a load fails whenever a slave is named 'debug',
\* 'change' or 'status' and whenever two slaves have the same name.
C12_AsClaimed ==
    \A L \in DOMAIN loads :
        LET sl == Config(loads[L].cfg).slaves
        IN (\/ \E k \in 1..Len(sl) : sl[k] \in {"debug", "change", "status"}
            \/ \E j, k \in 1..Len(sl) : j # k /\ sl[j] = sl[k])
           => ~Passed(loads[L])

----------------------------------------------------------------------------
\* Properties of startService

\* C13 (as claimed): when startService has made the initial load, of a
\* valid configuration, every builder of that configuration has got the
\* "master started" marker.  Stated for an initial load that has completed.
C13_AsClaimed ==
    (/\ start_pc = "started"
     /\ start_load # 0
     /\ loads[start_load].outcome = "done")
    => Range(NamesOf(Config(loads[start_load].cfg).builders))
           \subseteq master_started

----------------------------------------------------------------------------
\* Properties of addBuildset and of the Control facade

\* The deliveries on the new-buildset bus that call k has made.
Deliveries(k) == {j \in 1..Len(bs_bus) : bs_bus[j].call = k}

\* C14: addBuildset delivers (bsid, fields) on the new-buildset bus of its
\* master exactly once for a call whose database write has succeeded and
\* whose Deferred has fired, and hands that bsid to the caller; before that,
\* and when the write fails, nothing is delivered, and a failed write gives
\* the caller the failure and no bsid.
C14_BuildsetDeliveredOnce ==
    \A k \in DOMAIN bs_calls :
        LET c == bs_calls[k]
        IN /\ c.status = "ok" =>
                  /\ Cardinality(Deliveries(k)) = 1
                  /\ \A j \in Deliveries(k) :
                         /\ bs_bus[j].bsid = c.bsid
                         /\ bs_bus[j].fields = c.fields
                         /\ bs_bus[j].master = c.master
                  /\ c.bsid # None
                  /\ c.returned = c.bsid
           /\ c.status # "ok" => Deliveries(k) = {} /\ c.returned = None
           /\ c.status = "failed" => c.bsid = None

\* One call has delivered its buildset and another one's write has failed.
C14_Witness ==
    \E j, k \in DOMAIN bs_calls :
        /\ bs_calls[j].status = "ok"
        /\ Deliveries(j) # {}
        /\ bs_calls[k].status = "failed"

\* C19 (as claimed): a call of Control.addChange makes the database write
\* and returns the future that BuildMaster.addChange makes and returns.
C19_AsClaimed ==
    \A k \in DOMAIN control_log :
        /\ control_log[k].raised = "none"
        /\ control_log[k].issued
        /\ control_log[k].returned = "Deferred"

----------------------------------------------------------------------------
\* Properties of one invocation of pollDatabaseChanges (checked under
\* SpecPoll)

\* The deliveries master m has made since the invocation p started.
PollDelivered(m, p) ==
    SubSeq(delivered[m], p.start_len + 1, Len(delivered[m]))

\* The step ends the invocation in slot i of master m without a failure:
\* the generator returns, and the timer goes on.
PollReturns(m, i) ==
    /\ polls[m][i].pc # "none"
    /\ polls'[m][i].pc = "none"
    /\ restarts' = restarts
    /\ poll_timer'[m] = poll_timer[m]

\* Every poll made so far has returned without a failure, and no master has
\* been restarted.
AllPollsReturned ==
    /\ restarts = 0
    /\ \A w \in Masters : poll_timer[w] = "running" /\ InFlight(w) = {}

\* C15, as claimed: as long as the polls that have returned delivered
\* nothing and initialised no mark, nothing has been written to the
\* StateStore: it holds neither a state value nor a row of the objects
\* table.
C15_AsClaimed ==
    (/\ AllPollsReturned
     /\ \A w \in Masters :
            last_processed_change[w] = None /\ delivered[w] = <<>>)
        => (db_state = <<>> /\ db_objects = <<>>)

\* C15, amended: while a poll is in its loop or past it, the deliveries it
\* has made are the changeids first_mark+1 .. mark in that order, all of
\* them changes of the database; the loop ends when no change has the id
\* mark+1; a poll that delivered returns by _setState, which leaves the
\* persisted mark equal to the in-memory mark; a poll that returns with
\* need_setState False has delivered nothing and set no state value: a
\* state value is written only by the return of a poll with need_setState
\* True, and the only other write of a poll is the master's row of the
\* objects table, inserted by getObjectId on the way to _getState in a poll
\* that started without an in-memory mark.
C15_PollDeliversRunAfterMark ==
    [][/\ db_state' # db_state =>
              \E w \in Masters : \E j \in PollSlots :
                  PollReturns(w, j) /\ polls[w][j].need_setState
       /\ db_objects' # db_objects =>
              \E w \in Masters : \E j \in PollSlots :
                  /\ polls[w][j].pc = "getObjectId"
                  /\ polls[w][j].after = "getState"
                  /\ polls[w][j].first_mark = None
       /\ \A m \in Masters : \A i \in PollSlots :
         LET p == polls[m][i]
         IN /\ p.first_mark # None =>
                  /\ last_processed_change[m] # None
                  /\ last_processed_change[m] >= p.first_mark
                  /\ PollDelivered(m, p) =
                         [k \in 1..(last_processed_change[m] - p.first_mark)
                             |-> p.first_mark + k]
                  /\ Range(PollDelivered(m, p)) \subseteq changes
            /\ (p.pc = "fetch" /\ polls'[m][i].pc # "fetch"
                    /\ restarts' = restarts /\ poll_timer'[m] = poll_timer[m])
                  => /\ last_processed_change[m] + 1 \notin changes
                     /\ last_processed_change'[m] = last_processed_change[m]
            /\ (PollReturns(m, i) /\ p.need_setState) =>
                  /\ p.pc = "setState"
                  /\ PersistedMark(m)' = last_processed_change'[m]
                  /\ last_processed_change'[m] = last_processed_change[m]
                  /\ last_processed_change[m] =
                         p.first_mark + Len(PollDelivered(m, p))
            /\ (PollReturns(m, i) /\ ~p.need_setState) =>
                  /\ PollDelivered(m, p) = <<>>
                  /\ db_state' = db_state
                  /\ db_objects' = db_objects]_vars

\* C15, witness: a poll that started with the mark 1 in memory has delivered
\* the changes 2 and 3 in that order, its mark is 3, and it is asking for
\* the change 4.
C15_Witness ==
    \E m \in Masters : \E i \in PollSlots :
        /\ polls[m][i].pc = "fetch"
        /\ polls[m][i].after = "none"
        /\ polls[m][i].first_mark = 1
        /\ PollDelivered(m, polls[m][i]) = <<2, 3>>
        /\ last_processed_change[m] = 3
        /\ polls[m][i].changeid = 4

\* Every master whose polls have all returned and that has a mark in memory
\* finds a mark in the StateStore.
MarkIsPersisted ==
    \A m \in Masters :
        (/\ poll_timer[m] = "running"
         /\ InFlight(m) = {}
         /\ last_processed_change[m] # None)
            => PersistedMark(m) # None

\* C16, as claimed: when the only polls made so far found neither a mark nor
\* a change, the poll that gets no latest changeid returns with the
\* StateStore as it was before the first poll: without a state value and
\* without a row of the objects table.
C16_AsClaimed ==
    [][\A m \in Masters : \A i \in PollSlots :
           (/\ polls[m][i].pc = "getLatest"
            /\ PollReturns(m, i)
            /\ changes = {}
            /\ restarts = 0
            /\ \A w \in Masters :
                   /\ poll_timer[w] = "running"
                   /\ InFlight(w) \subseteq (IF w = m THEN {i} ELSE {}))
               => (db_state' = <<>> /\ db_objects' = <<>>)]_vars

\* C16, amended: a poll that found no mark in memory and none in the
\* StateStore takes the latest changeid of the database: when there is one
\* it becomes the mark without a delivery, the poll goes on to its loop,
\* delivers only changes after that mark, and the mark is in the StateStore
\* once the poll has returned; when the database holds no change the poll
\* returns with the mark still None, without a delivery and without setting
\* a state value (the objects row of the master, inserted by getObjectId,
\* is the one write it has made).
C16_FirstPollSkipsHistory ==
    [][/\ \A m \in Masters : \A i \in PollSlots :
            LET p == polls[m][i]
            IN /\ (/\ p.pc = "getLatest"
                   /\ polls'[m][i].pc # "getLatest"
                   /\ restarts' = restarts
                   /\ poll_timer'[m] = poll_timer[m]) =>
                      /\ delivered' = delivered
                      /\ db_state' = db_state
                      /\ db_objects' = db_objects
                      /\ MasterObjectName(m) \in Range(db_objects)
                      /\ PollDelivered(m, p) = <<>>
                      /\ IF changes = {}
                         THEN /\ PollReturns(m, i)
                              /\ last_processed_change'[m] = None
                         ELSE /\ last_processed_change'[m] = Max(changes)
                              /\ polls'[m][i].pc = "fetch"
                              /\ polls'[m][i].first_mark = Max(changes)
               /\ p.first_mark # None =>
                      \A k \in 1..Len(PollDelivered(m, p)) :
                          PollDelivered(m, p)[k] > p.first_mark
       /\ MarkIsPersisted']_vars

\* C16, witness: with the changes 1 and 2 in the database, the first poll of
\* a master has taken 2 as its mark, has delivered nothing, and is writing
\* the mark 2 to the StateStore.
C16_Witness ==
    \E m \in Masters : \E i \in PollSlots :
        /\ polls[m][i].pc = "setState"
        /\ polls[m][i].first_mark = 2
        /\ polls[m][i].value = 2
        /\ delivered[m] = <<>>
        /\ {1, 2} \subseteq changes
        /\ PersistedMark(m) = None

\* The step ends the invocation in slot i of master m, by a return or by a
\* failure, in a master that keeps running.
PollEnds(m, i) ==
    /\ polls[m][i].pc # "none"
    /\ polls'[m][i].pc = "none"
    /\ restarts' = restarts

\* C17, as claimed: when a poll has ended, by a failure of one of its
\* database calls as well as by a return, the timer of the master is running
\* and waits for nothing, so that a next poll takes place, and the mark in
\* memory is the one the poll had reached, from which the next poll goes
\* on: the deliveries of the run stay strictly increasing.
C17_AsClaimed ==
    [][\A m \in Masters : \A i \in PollSlots :
           PollEnds(m, i) =>
               /\ poll_timer'[m] = "running"
               /\ timer_wait'[m] = 0
               /\ polls[m][i].pc # "getLatest" =>
                      last_processed_change'[m] = last_processed_change[m]
               /\ \A j, k \in 1..Len(RunDelivered(m)) :
                      j < k => RunDelivered(m)[j] < RunDelivered(m)[k]]_vars

----------------------------------------------------------------------------
\* Properties of loadConfig with checkOnly (checked under SpecLoad)

\* C18, as claimed: a load with checkOnly, whether it succeeds or fails,
\* leaves every field of the master and of its components equal to its
\* value before the call: the live graph, the change horizon of the change
\* manager and of the DB connector included, and readConfig.
C18_AsClaimed ==
    [][(/\ Len(loads') > Len(loads)
        /\ loads'[Len(loads')].checkOnly)
       => (LiveGraph' = LiveGraph /\ readConfig' = readConfig)]_vars

----------------------------------------------------------------------------
\* Properties of loadDatabase (checked under SpecLoad)

\* What set_up_db_dependents attaches: the observers that depend on the
\* database and the two timers.
DbDependents ==
    <<db_dependents, change_subs[Self], new_buildset_subs, poll_timer[Self],
      wake_timer>>

\* The step is the answer of is_current to load L.
SchemaChecked(L) ==
    /\ L \in DOMAIN loads
    /\ "Database" \in loads[L].pending
    /\ "Database" \notin loads'[L].pending

\* C20: the observers that depend on the database and the two timers are
\* attached only in the step in which is_current answers the load that
\* created the DB connector, and only when the schema is current: status is
\* then subscribed to the changes bus and the botmaster's wake-up to the
\* new-buildset bus, and the two timers run exactly when the
\* db_poll_interval of the configuration is set.  When the schema is stale
\* the load fails and nothing is attached.
C20_DependentsAfterSchemaCheck ==
    [][/\ DbDependents' # DbDependents =>
              \E L \in DOMAIN loads :
                  /\ SchemaChecked(L)
                  /\ schema_current
                  /\ DbDependents = <<FALSE, <<>>, <<>>, "absent", "absent">>
       /\ \A L \in DOMAIN loads :
              SchemaChecked(L) =>
                  LET timer ==
                          IF Config(loads[L].cfg).db_poll_interval
                                 \notin {None, 0}
                          THEN "running" ELSE "absent"
                  IN IF schema_current
                     THEN /\ DbDependents' =
                                 <<TRUE, <<"status">>, <<"botmaster">>,
                                   timer, timer>>
                          /\ loads'[L].outcome = loads[L].outcome
                     ELSE /\ DbDependents' = DbDependents
                          /\ DbDependents =
                                 <<FALSE, <<>>, <<>>, "absent", "absent">>
                          /\ loads'[L].outcome = "failed"]_vars

\* C20, witness: the first load, of a configuration that sets
\* db_poll_interval, has passed the schema check and is done: the observers
\* are subscribed and the two timers run.
C20_Witness ==
    /\ Len(loads) >= 1
    /\ loads[1].cfg = "poll"
    /\ loads[1].outcome = "done"
    /\ schema_current
    /\ DbDependents = <<TRUE, <<"status">>, <<"botmaster">>, "running",
                        "running">>

----------------------------------------------------------------------------
\* Properties of the end of a load (checked under SpecLoad)

\* The loads whose chain has reached the callback step.
LoadsThatStarted(step) ==
    {L \in DOMAIN loads : step \in Range(loads[L].started)}

\* C21: readConfig is set and the botmaster's loop is triggered only by the
\* last two callbacks of a load that is not checkOnly, after its
\* DebugClient step has finished with success; each load does each at most
\* once, a load that is done has done both, and a load that failed, was
\* invalid or was checkOnly has done neither: the number of triggers is the
\* number of loads that are done.
C21_DoneOncePerLoad ==
    [][/\ (readConfig' # readConfig \/ triggers' # triggers) =>
              \E L \in DOMAIN loads :
                  /\ reactor = L
                  /\ ~loads[L].checkOnly
                  /\ loads[L].outcome = "running"
                  /\ "DebugClient" \in Range(loads[L].started)
                  /\ "DebugClient" \notin loads[L].pending
                  /\ triggers' # triggers =>
                         /\ triggers' = triggers + 1
                         /\ loads[L].started[Len(loads[L].started)] = "_done"
                         /\ loads'[L].outcome = "done"
                  /\ triggers' = triggers =>
                         /\ loads[L].started[Len(loads[L].started)]
                                = "DebugClient"
                         /\ Head(loads'[L].chain) = "trigger"
       /\ \A L \in DOMAIN loads' :
              LET r == loads'[L]
              IN /\ Count(r.started, "_done") <= 1
                 /\ Count(r.started, "trigger") <= 1
                 /\ r.outcome = "done" =>
                        {"_done", "trigger"} \subseteq Range(r.started)
                 /\ r.outcome \in {"failed", "invalid", "error", "checked"}
                        => Range(r.started) \cap {"_done", "trigger"} = {}
                 /\ r.checkOnly => r.started = <<>>
       /\ triggers' = Cardinality({L \in DOMAIN loads' :
                                      loads'[L].outcome = "done"})
       /\ readConfig' = (LoadsThatStarted("_done")' # {})]_vars

\* C21, witness: a first load is done and a reload has failed in one of
\* its steps: the graph is marked configured and the loop was triggered
\* once.
C21_Witness ==
    /\ Len(loads) = 2
    /\ loads[1].outcome = "done"
    /\ loads[2].outcome = "failed"
    /\ "Database" \in Range(loads[2].started)
    /\ readConfig
    /\ triggers = 1

----------------------------------------------------------------------------
\* Properties of the steps of a reload (checked under SpecReload)

\* The step is the call of the callback step of load L.
StepRuns(L, step) ==
    /\ L \in DOMAIN loads
    /\ step \notin Range(loads[L].started)
    /\ step \in Range(loads'[L].started)

\* The calls made on the status in the step.
NewEvents ==
    SubSeq(status_events', Len(status_events) + 1, Len(status_events'))

EventCount(events, kind, name) ==
    Cardinality({k \in 1..Len(events) :
                    events[k].kind = kind /\ events[k].name = name})

\* The status handles that exist: those of the botmaster's builders and
\* those status.builderAdded has made.
KnownHandles ==
    {builder_objs[n].handle : n \in DOMAIN builder_objs}
        \cup {status_events[k].handle : k \in 1..Len(status_events)}

\* C22: in the call of loadConfig_Builders, every name the botmaster has
\* and the configuration has not is announced with builderRemoved exactly
\* once, and no other name is; every name of the configuration the
\* botmaster has not gets builderAdded once and a Builder made in this call
\* on a handle that did not exist; the list is handed to
\* botmaster.setBuilders exactly when a builder was removed, added or
\* updated, and then the botmaster has the names of the configuration, in
\* its order; otherwise the botmaster keeps what it has.
C22_BuilderDiff ==
    [][\A L \in DOMAIN loads :
         StepRuns(L, "Builders") =>
           LET names == NamesOf(Config(loads[L].cfg).builders)
               live == DOMAIN builders
               new == Range(names)
               handed == "Builders" \in loads'[L].pending
           IN /\ \A n \in live \cup new :
                     /\ EventCount(NewEvents, "builderRemoved", n) =
                            (IF n \in live \ new THEN 1 ELSE 0)
                     /\ EventCount(NewEvents, "builderAdded", n) =
                            (IF n \in new \ live THEN 1 ELSE 0)
                     /\ EventCount(NewEvents, "config updated", n) <= 1
              /\ \A n \in new \ live :
                     /\ builder_objs'[n].obj = L
                     /\ \A o \in live : builder_objs[o].obj # L
                     /\ builder_objs'[n].handle \notin KnownHandles
              /\ handed = (NewEvents # <<>>)
              /\ handed =>
                     /\ builder_list' = names
                     /\ DOMAIN builder_objs' = new
                     /\ DOMAIN builders' = new
              /\ ~handed =>
                     /\ live = new
                     /\ UNCHANGED <<builders, builder_objs, builder_list>>
      ]_vars

\* C22, witness: a reload that declares less has removed the builder b2,
\* and a later reload has added b2 again and b3: the botmaster has the three
\* builders in the order of the configuration, b2 and b3 on new handles.
C22_Witness ==
    /\ EventCount(status_events, "builderRemoved", "b2") = 1
    /\ EventCount(status_events, "builderAdded", "b3") = 1
    /\ builder_list = <<"b1", "b2", "b3">>
    /\ DOMAIN builder_objs = {"b1", "b2", "b3"}
    /\ builder_objs["b1"].handle = 0
    /\ builder_objs["b2"].handle = 2
    /\ builder_objs["b3"].handle = 2

StepCompletes(L, step) ==
    /\ L \in DOMAIN loads
    /\ StepRuns(L, step) \/ step \in loads[L].pending
    /\ step \in Range(loads'[L].started)
    /\ step \notin loads'[L].pending
    /\ loads'[L].outcome # "failed"

\* C24, as claimed: a status target is attached only in a step after which
\* no detachment of the status step is under way, and when the status step
\* of a load completes, self.statusTargets holds exactly the targets the
\* load's configuration declares, each once.
C24_AsClaimed ==
    [][/\ (\E t \in Range(statusTargets') : t \notin Range(statusTargets))
              => \E L \in DOMAIN loads :
                     /\ StepCompletes(L, "status")
                     /\ "status" \notin loads'[L].pending
       /\ \A L \in DOMAIN loads :
              StepCompletes(L, "status") =>
                  /\ Range(statusTargets') =
                         Range(Config(loads[L].cfg).status)
                  /\ Distinct(statusTargets')]_vars

\* The sources that the step of load L hands to change_svc.addSource.
SourcesAddedBy(L) ==
    IF "Sources" \in loads[L].pending
    THEN loads[L].added
    ELSE Range(Config(loads[L].cfg).change_source) \ sources

\* C25, as claimed: a change source becomes live only in a step that
\* completes a change-source step, so after that step's removals; a source
\* that is live is not added again, one that is live and declared is not
\* removed; and when the step of a load completes the live set is the set
\* the load's configuration declares.
C25_AsClaimed ==
    [][/\ (sources' \ sources # {})
              => \E L \in DOMAIN loads : StepCompletes(L, "Sources")
       /\ \A L \in DOMAIN loads :
              /\ StepRuns(L, "Sources") =>
                     (Range(Config(loads[L].cfg).change_source) \cap sources)
                         \subseteq sources'
              /\ StepCompletes(L, "Sources") =>
                     /\ SourcesAddedBy(L) \cap sources = {}
                     /\ sources' =
                            Range(Config(loads[L].cfg).change_source)]_vars

\* C26, as claimed: at most one debug-client registration is live at any
\* time (a registration is live until its unregister() has resolved), and
\* when the debug-client step of a load whose configuration has no debug
\* password completes, no registration remains.
C26_AsClaimed ==
    [][/\ debug_live' <= 1
       /\ \A L \in DOMAIN loads :
              (/\ StepCompletes(L, "DebugClient")
               /\ Config(loads[L].cfg).debugPassword = "None")
                  => /\ debugClientRegistration' = NoRegistration
                     /\ debug_live' = 0]_vars

\* addChange.notify does not deliver on the changes bus itself.
SuppressesDirectDelivery == db_poll_interval[Self] \notin {Unset, None, 0}

\* C27, as claimed: in every state in which the DB connector is attached,
\* the poll timer is installed if and only if addChange suppresses direct
\* delivery (so a change reaches the observers through the poller or
\* through addChange itself, and through one of them).  The states in
\* which a database step still waits for the schema check are left out:
\* the claim covers them too, and fails in them as well.
C27_AsClaimed ==
    (/\ db = "DBConnector"
     /\ \A L \in DOMAIN loads : "Database" \notin loads[L].pending)
        => ((poll_timer[Self] # "absent") <=> SuppressesDirectDelivery)

\* The loads whose step sequence has begun and has neither completed nor
\* failed.
InProgress == {L \in DOMAIN loads : loads[L].outcome = "running"}

\* C28, as claimed: at most one reconfiguration is in progress at any
\* time, and a step that changes the live graph is taken while no other
\* step sequence than the one it belongs to is in progress.
C28_AsClaimed ==
    [][/\ Cardinality(InProgress') <= 1
       /\ LiveGraph' # LiveGraph => Cardinality(InProgress) <= 1]_vars

\* C29, as claimed: whenever the graph is marked configured, the schema of
\* the database is current and was found so by check_current, the status
\* and the botmaster's wake-up are subscribed, and the two timers exist
\* when db_poll_interval is set.  It is stated for the states in which no
\* load waits for the answer of is_current, so that an answer still to
\* come is not counted against the claim.
C29_AsClaimed ==
    (/\ readConfig
     /\ \A L \in DOMAIN loads : "Database" \notin loads[L].pending)
        => /\ schema_current
           /\ db_dependents
           /\ "status" \in Range(change_subs[Self])
           /\ "botmaster" \in Range(new_buildset_subs)
           /\ SuppressesDirectDelivery =>
                  (poll_timer[Self] # "absent" /\ wake_timer # "absent")

----------------------------------------------------------------------------
\* The DB connector over loads and reloads (checked under SpecLoad)

\* The loads that wait for the answer of is_current, after which
\* set_up_db_dependents runs.
AwaitingSchemaCheck == {L \in DOMAIN loads : "Database" \in loads[L].pending}

\* C30: over any sequence of loads, overlapping or not, the DB connector is
\* made by the database step of a load that finds none and is never
\* dropped, so it is made at most once; a database step that finds one
\* waits for no schema check and attaches nothing, so at most one load ever
\* waits for set_up_db_dependents; the status is subscribed to the changes
\* bus at most once and the botmaster's wake-up to the new-buildset bus at
\* most once; and a timer is started only where there was none.
C30_DbDependentsOnce ==
    [][/\ db' # db => /\ db = "None"
                      /\ \E L \in DOMAIN loads : StepRuns(L, "Database")
       /\ db # "None" => db' = db
       /\ Cardinality(AwaitingSchemaCheck') <= 1
       /\ \A L \in DOMAIN loads :
              (StepRuns(L, "Database") /\ db # "None") =>
                  /\ L \notin AwaitingSchemaCheck'
                  /\ DbDependents' = DbDependents
       /\ Count(change_subs'[Self], "status") <= 1
       /\ Count(new_buildset_subs', "botmaster") <= 1
       /\ poll_timer'[Self] # poll_timer[Self] =>
              poll_timer[Self] = "absent"
       /\ wake_timer' # wake_timer => wake_timer = "absent"]_vars

\* A reload of a polling master has completed after the load that made the
\* connector: there is one subscription of each kind and the timers run.
C30_Witness ==
    /\ Len(loads) = 2
    /\ loads[1].cfg = "poll" /\ loads[1].outcome = "done"
    /\ loads[2].cfg = "poll" /\ loads[2].outcome = "done"
    /\ "Database" \in Range(loads[2].started)
    /\ db = "DBConnector"
    /\ change_subs[Self] = <<"status">>
    /\ new_buildset_subs = <<"botmaster">>
    /\ poll_timer[Self] = "running"
    /\ wake_timer = "running"

----------------------------------------------------------------------------
\* The poller over a changes table with gaps (checked under SpecPollLive)

\* The poller with database calls that all answer and masters that keep
\* running: what is left is the timer, the steps of the poll and the
\* writers of the changes table.
NextPollLive ==
    \/ DbWriteChange
    \/ DbSkipChangeid
    \/ \E m \in Masters :
        \/ TimerFire(m)
        \/ \E i \in PollSlots :
               \/ GetObjectIdDone(m, i)
               \/ GetStateDone(m, i)
               \/ GetLatestDone(m, i)
               \/ FetchDone(m, i)
               \/ SetStateDone(m, i)

\* A step of a poll of master m.
PollStep(m) ==
    \E i \in PollSlots :
        \/ GetObjectIdDone(m, i)
        \/ GetStateDone(m, i)
        \/ GetLatestDone(m, i)
        \/ FetchDone(m, i)
        \/ SetStateDone(m, i)

\* The TimerService keeps firing and every database call answers.
PollFairness ==
    \A m \in Masters : WF_vars(TimerFire(m)) /\ WF_vars(PollStep(m))

SpecPollLive == InitPoll /\ [][NextPollLive]_vars /\ PollFairness

\* Change c is in the database above the mark of master m.
AboveMark(m, c) ==
    /\ c \in changes
    /\ last_processed_change[m] # None
    /\ last_processed_change[m] < c

\* C31, as claimed: every change that is in the database with a changeid
\* greater than the mark of a master is eventually delivered by the poller
\* of that master, whether the changeids are contiguous or not.
C31_AsClaimed ==
    \A m \in Masters : \A c \in 1..MaxChange :
        AboveMark(m, c) ~> (c \in Range(delivered[m]))

----------------------------------------------------------------------------
\* The persisted mark with several masters (checked under SpecPoll)

\* The step is the answer of _getState to a poll of master m.
MarkLoaded(m) ==
    \E i \in PollSlots :
        polls[m][i].pc = "getState" /\ polls'[m][i].pc # "getState"

\* Master m has persisted no mark yet: it has not restarted and no poll of
\* it has had a mark.
NeverHadMark(m) == restarts = 0 /\ init_mark[m] = None

\* C32, as claimed: a persisted last_processed_change never decreases, and
\* a master resumes from its own progress: one that has never had a mark
\* finds none persisted, whatever its peers have written.
C32_AsClaimed ==
    [][/\ \A k \in DOMAIN db_state :
              /\ k \in DOMAIN db_state'
              /\ db_state[k] # None => db_state'[k] >= db_state[k]
       /\ \A m \in Masters :
              (MarkLoaded(m) /\ NeverHadMark(m)) =>
                  last_processed_change'[m] = None]_vars

----------------------------------------------------------------------------
\* The change horizon of a master without a DB connector (checked under
\* SpecCheck)

\* C33, as claimed: a load, checkOnly or not, of a configuration that
\* breaks no validation rule and sets changeHorizon succeeds when the
\* master has no DB connector yet, and the change horizon is applied.
C33_AsClaimed ==
    [][(/\ Len(loads') > Len(loads)
        /\ db = "None"
        /\ Config(loads'[Len(loads')].cfg).changeHorizon # None
        /\ PreHorizonError(Config(loads'[Len(loads')].cfg)) = "ok"
        /\ PostHorizonError(Config(loads'[Len(loads')].cfg)) = "ok")
       => /\ loads'[Len(loads')].outcome \in {"running", "checked"}
          /\ change_horizon' = Config(loads'[Len(loads')].cfg).changeHorizon
      ]_vars

----------------------------------------------------------------------------
\* A reload that only reorders the builders (checked under SpecReorder)

\* The configuration the master runs, with its two builders declared in
\* the other order.
ReorderIds == {"swapped"}

NextReorder ==
    \/ \E id \in ReorderIds : LoadConfig(id, FALSE)
    \/ \E L \in 1..MaxLoads :
        \/ Database(L)
        \/ Slaves(L)
        \/ SlavesDone(L)
        \/ Builders(L)
        \/ StatusStep(L)
        \/ Schedulers(L)
        \/ SchedulersDone(L)
        \/ Sources(L)
        \/ DebugClient(L)
        \/ DebugClientDone(L)
        \/ Done(L)
        \/ Trigger(L)

SpecReorder == InitReload /\ [][NextReorder]_vars

\* C34, as claimed: when a reconfiguration has succeeded, the ordered
\* builder list of the botmaster is the list of the builder names in the
\* order of the configuration.
C34_AsClaimed ==
    [][\A L \in DOMAIN loads :
           (loads[L].outcome # "done" /\ loads'[L].outcome = "done") =>
               builder_list' =
                   NamesOf(BuilderDicts(Config(loads[L].cfg)))]_vars

====
